---- MODULE Spec2Model ----
(***************************************************************************)
(* Model of pkg/querier/queryrange/codec.go: the response merger           *)
(* (Codec.MergeResponse, mergeLokiResponse,                                *)
(* mergeOrderedNonOverlappingStreams) and the request variants' clone      *)
(* operations (WithStartEnd, WithQuery, WithShards), and the request and    *)
(* response codec (EncodeRequest, DecodeRequest, DecodeHTTPGrpcRequest,    *)
(* DecodeResponse, DecodeHTTPGrpcResponse, ParamsFromRequest).             *)
(*                                                                         *)
(* Label-set keys and label names are strings in the code; the model uses  *)
(* the naturals 1..MaxLabel for them, k standing for the k-th string in    *)
(* lexical order, so that sort.Strings is the numeric order.  An entry is  *)
(* modelled by its Timestamp, the only field the merger reads.             *)
(***************************************************************************)
EXTENDS Integers, Sequences, FiniteSets, TLC

VARIABLES
    responses,  \* the argument list of MergeResponse, as built by the caller
    merged,     \* the response MergeResponse returned (Nil before the call / on error)
    err,        \* the error MergeResponse returned ("" when none)
    pc,         \* "build" while the caller collects responses, "merged" after the call
    reqs,       \* request objects: the receiver and the clones made from it
    cells,      \* heap cells holding the time values LabelRequest points to
    ctx,        \* the context handed to the codec: the tenant (org id) it carries
    transport,  \* the transport message in hand: an HTTP request or a shard's HTTP response
    returned    \* what the last codec call returned: a value and an error

vars == <<responses, merged, err, pc, reqs, cells, ctx, transport, returned>>

\* ---------------------------------------------------------------- bounds
MaxResp == 2       \* responses in one MergeResponse call
MaxStreams == 2    \* streams in one response
MaxEntries == 1    \* entries in one stream of a shard response
MaxTs == 3         \* timestamps 1..MaxTs
MaxLabel == 2      \* label-set keys / label names 1..MaxLabel
MaxValue == 2      \* label values 1..MaxValue
MaxLimit == 4      \* limits 0..MaxLimit
MaxStat == 1       \* a statistics counter of one response, 0..MaxStat
MaxData == 2       \* series / names / volumes in one response
ShardLen == 3      \* entries of a shard's stream in the interleaved scenario
MaxShardTs == 6    \* timestamps of the interleaved scenario
MaxReqs == 3       \* request objects: the receiver and its clones

Nil == [kind |-> "nil"]

FORWARD == "FORWARD"
BACKWARD == "BACKWARD"
Directions == {FORWARD, BACKWARD}

QueryStatusSuccess == "success"
QueryStatusFail == "fail"
ResultTypeStream == "streams"

\* ---------------------------------------------------------------- helpers
RECURSIVE SeqSum(_)
SeqSum(s) == IF s = <<>> THEN 0 ELSE Head(s) + SeqSum(Tail(s))

RECURSIVE Flatten(_)
Flatten(ss) == IF ss = <<>> THEN <<>> ELSE Head(ss) \o Flatten(Tail(ss))

Range(s) == {s[i] : i \in DOMAIN s}

SeqsUpTo(S, n) == UNION {[1..k -> S] : k \in 0..n}

\* LokiResponse.Count: the number of entries over all streams of a response
Count(res) == SeqSum([i \in DOMAIN res.Data.Result |-> Len(res.Data.Result[i].Entries)])

\* ---------------------------------------------------------------- statistics
ZeroStats == [TotalBytesProcessed |-> 0, TotalLinesProcessed |-> 0]

\* stats.Result.MergeSplit: counters are combined by addition
MergeSplit(acc, m) ==
    [TotalBytesProcessed |-> acc.TotalBytesProcessed + m.TotalBytesProcessed,
     TotalLinesProcessed |-> acc.TotalLinesProcessed + m.TotalLinesProcessed]

\* the loop "for _, res := range responses { mergedStats.MergeSplit(res.Statistics) }"
RECURSIVE MergeStatsUpTo(_, _)
MergeStatsUpTo(resps, n) ==
    IF n = 0 THEN ZeroStats
    ELSE MergeSplit(MergeStatsUpTo(resps, n - 1), resps[n].Statistics)

\* mutant of MergedStats: the statistics are copied from the first response, like
\* Direction and Limit
MergedStats_FirstOnly(resps) == MergeStatsUpTo(resps, 1)

MergedStats(resps) == MergeStatsUpTo(resps, Len(resps))

\* ---------------------------------------------------------------- ordered stream merge
\* the number of responses the grouping loop reads: it breaks after the first
\* response at which total >= int(limit)
RECURSIVE ConsumedFrom(_, _, _, _)
ConsumedFrom(resps, i, total, limit) ==
    IF i > Len(resps) THEN Len(resps)
    ELSE LET t == total + Count(resps[i])
         IN IF t >= limit THEN i ELSE ConsumedFrom(resps, i + 1, t, limit)

\* mutant of Consumed: the grouping loop never breaks
Consumed_NoBreak(resps, limit) == Len(resps)

Consumed(resps, limit) == ConsumedFrom(resps, 1, 0, limit)

\* the streams appended to groups, in the order the loop meets them
GroupedStreams(resps, limit) ==
    Flatten([i \in 1..Consumed(resps, limit) |-> resps[i].Data.Result])

\* total, when the grouping loop ends
Total(resps, limit) ==
    LET gs == GroupedStreams(resps, limit)
    IN SeqSum([i \in DOMAIN gs |-> Len(gs[i].Entries)])

\* mutant of Markers: "s.markers = []entries{stream.Entries}" instead of append
Markers_Overwrite(resps, limit, key) ==
    LET sel == SelectSeq(GroupedStreams(resps, limit), LAMBDA s : s.Labels = key)
    IN <<sel[Len(sel)].Entries>>

\* groups[key].markers
Markers(resps, limit, key) ==
    LET sel == SelectSeq(GroupedStreams(resps, limit), LAMBDA s : s.Labels = key)
    IN [i \in DOMAIN sel |-> sel[i].Entries]

GroupKeys(resps, limit) == {s.Labels : s \in Range(GroupedStreams(resps, limit))}

\* mutant of SortKeys: the keys are sorted ascending whatever the direction
RECURSIVE SortKeys_NoReverse(_, _)
SortKeys_NoReverse(S, direction) ==
    IF S = {} THEN <<>>
    ELSE LET k == CHOOSE x \in S : \A y \in S : x <= y
         IN <<k>> \o SortKeys_NoReverse(S \ {k}, direction)

\* sort.Strings(keys), or sort.Sort(sort.Reverse(sort.StringSlice(keys))) when BACKWARD
RECURSIVE SortKeys(_, _)
SortKeys(S, direction) ==
    IF S = {} THEN <<>>
    ELSE LET k == IF direction = BACKWARD
                  THEN CHOOSE x \in S : \A y \in S : y <= x
                  ELSE CHOOSE x \in S : \A y \in S : x <= y
         IN <<k>> \o SortKeys(S \ {k}, direction)

\* byDir.Less on two non-empty markers: the one that starts first for the direction
StartsBefore(a, b, direction) ==
    IF direction = BACKWARD THEN a[1].Timestamp > b[1].Timestamp
    ELSE a[1].Timestamp < b[1].Timestamp

\* insertion of a marker into markers already ordered by start, after its equals
RECURSIVE InsertMarker(_, _, _)
InsertMarker(sorted, m, direction) ==
    IF sorted = <<>> THEN <<m>>
    ELSE IF StartsBefore(m, Head(sorted), direction) THEN <<m>> \o sorted
    ELSE <<Head(sorted)>> \o InsertMarker(Tail(sorted), m, direction)

RECURSIVE SortMarkers(_, _)
SortMarkers(ms, direction) ==
    IF ms = <<>> THEN <<>>
    ELSE InsertMarker(SortMarkers(SubSeq(ms, 1, Len(ms) - 1), direction), ms[Len(ms)], direction)

\* byDir.merge: the markers of one label-set, ordered by their start for the
\* direction, concatenated
ByDirMerge(markers, direction) ==
    Flatten(SortMarkers(SelectSeq(markers, LAMBDA m : m # <<>>), direction))

\* mutant of SeedStreams: a stream takes its key's first marker alone,
\* "groups[key].markers[0]" for "groups[key].merge()"
SeedStreams_FirstMarker(resps, limit, direction, keys) ==
    SelectSeq([i \in DOMAIN keys |->
                  [Labels |-> keys[i], Entries |-> Markers(resps, limit, keys[i])[1]]],
              LAMBDA s : Len(s.Entries) > 0)

\* the streams the priority queue is seeded with: one per key, empty ones left out
SeedStreams(resps, limit, direction, keys) ==
    SelectSeq([i \in DOMAIN keys |->
                  [Labels |-> keys[i],
                   Entries |-> ByDirMerge(Markers(resps, limit, keys[i]), direction)]],
              LAMBDA s : Len(s.Entries) > 0)

\* priorityqueue: the index of the stream whose first entry is the globally next one
NextIndex(pq, direction) ==
    CHOOSE i \in DOMAIN pq :
        /\ \A j \in DOMAIN pq :
              IF direction = FORWARD
              THEN pq[i].Entries[1].Timestamp <= pq[j].Entries[1].Timestamp
              ELSE pq[i].Entries[1].Timestamp >= pq[j].Entries[1].Timestamp
        /\ \A j \in 1..(i - 1) : pq[j].Entries[1].Timestamp # pq[i].Entries[1].Timestamp

\* priorityqueue after heap.Pop: the popped stream loses its first entry and
\* leaves the queue when it has no more
AfterPop(pq, i) ==
    IF Len(pq[i].Entries) > 1
    THEN [pq EXCEPT ![i].Entries = Tail(pq[i].Entries)]
    ELSE SubSeq(pq, 1, i - 1) \o SubSeq(pq, i + 1, Len(pq))

\* mutant of PopLoop: the loop runs while i <= int(limit)
RECURSIVE PopLoop_OffByOne(_, _, _, _, _)
PopLoop_OffByOne(pq, resultDict, i, limit, direction) ==
    IF ~(i <= limit /\ Len(pq) > 0) THEN resultDict
    ELSE LET n == NextIndex(pq, direction)
             lbl == pq[n].Labels
             entry == pq[n].Entries[1]
             dict == [k \in DOMAIN resultDict \cup {lbl} |->
                         IF k \in DOMAIN resultDict
                         THEN (IF k = lbl THEN Append(resultDict[k], entry) ELSE resultDict[k])
                         ELSE <<entry>>]
         IN PopLoop_OffByOne(AfterPop(pq, n), dict, i + 1, limit, direction)

\* the loop "for i := 0; i < int(limit) && pq.Len() > 0; i++": resultDict when it ends
RECURSIVE PopLoop(_, _, _, _, _)
PopLoop(pq, resultDict, i, limit, direction) ==
    IF ~(i < limit /\ Len(pq) > 0) THEN resultDict
    ELSE LET n == NextIndex(pq, direction)
             lbl == pq[n].Labels
             entry == pq[n].Entries[1]
             dict == [k \in DOMAIN resultDict \cup {lbl} |->
                         IF k \in DOMAIN resultDict
                         THEN (IF k = lbl THEN Append(resultDict[k], entry) ELSE resultDict[k])
                         ELSE <<entry>>]
         IN PopLoop(AfterPop(pq, n), dict, i + 1, limit, direction)

EmptyDict == [k \in {} |-> <<>>]

\* mutant of mergeOrderedNonOverlappingStreams: the pop loop starts at i = 1
mergeOrderedNonOverlappingStreams_LoopFromOne(resps, limit, direction) ==
    LET keys == SortKeys(GroupKeys(resps, limit), direction)
        total == Total(resps, limit)
    IN IF total <= limit
       THEN [i \in DOMAIN keys |->
                [Labels |-> keys[i],
                 Entries |-> ByDirMerge(Markers(resps, limit, keys[i]), direction)]]
       ELSE LET resultDict == PopLoop(SeedStreams(resps, limit, direction, keys),
                                      EmptyDict, 1, limit, direction)
                present == SelectSeq(keys, LAMBDA k : k \in DOMAIN resultDict)
            IN [i \in DOMAIN present |->
                   [Labels |-> present[i], Entries |-> resultDict[present[i]]]]

mergeOrderedNonOverlappingStreams(resps, limit, direction) ==
    LET keys == SortKeys(GroupKeys(resps, limit), direction)
        total == Total(resps, limit)
    IN IF total <= limit
       THEN [i \in DOMAIN keys |->
                [Labels |-> keys[i],
                 Entries |-> ByDirMerge(Markers(resps, limit, keys[i]), direction)]]
       ELSE LET resultDict == PopLoop(SeedStreams(resps, limit, direction, keys),
                                      EmptyDict, 0, limit, direction)
                present == SelectSeq(keys, LAMBDA k : k \in DOMAIN resultDict)
            IN [i \in DOMAIN present |->
                   [Labels |-> present[i], Entries |-> resultDict[present[i]]]]

\* mutant of mergeLokiResponse: Status and Headers are copied from the first
\* response, like Version and Error
mergeLokiResponse_CopyFirst(resps) ==
    LET lokiRes == resps[1]
    IN [kind |-> "LokiResponse",
        Status |-> lokiRes.Status,
        Direction |-> lokiRes.Direction,
        Limit |-> lokiRes.Limit,
        Version |-> lokiRes.Version,
        ErrorType |-> lokiRes.ErrorType,
        Error |-> lokiRes.Error,
        Statistics |-> MergedStats(resps),
        Headers |-> lokiRes.Headers,
        Data |-> [ResultType |-> ResultTypeStream,
                  Result |-> mergeOrderedNonOverlappingStreams(resps, lokiRes.Limit,
                                                               lokiRes.Direction)]]

mergeLokiResponse(resps) ==
    LET lokiRes == resps[1]
    IN [kind |-> "LokiResponse",
        Status |-> QueryStatusSuccess,
        Direction |-> lokiRes.Direction,
        Limit |-> lokiRes.Limit,
        Version |-> lokiRes.Version,
        ErrorType |-> lokiRes.ErrorType,
        Error |-> lokiRes.Error,
        Statistics |-> MergedStats(resps),
        Headers |-> <<>>,
        Data |-> [ResultType |-> ResultTypeStream,
                  Result |-> mergeOrderedNonOverlappingStreams(resps, lokiRes.Limit,
                                                               lokiRes.Direction)]]

\* ---------------------------------------------------------------- series and label names
\* logproto.SeriesIdentifier.Hash: a hash of the label pairs taken in the order
\* of their sorted names; two series with the same pairs always hash alike, and
\* two different series may collide
HashMod == 16

RECURSIVE HashPairs(_, _, _)
HashPairs(series, names, h) ==
    IF names = {} THEN h
    ELSE LET n == CHOOSE x \in names : \A y \in names : x <= y
         IN HashPairs(series, names \ {n}, (h * 5 + 3 * n + series[n]) % HashMod)

Hash(series) == HashPairs(series, DOMAIN series, 7)

\* every Data item, responses in list order and each Data in order
AllData(resps) == Flatten([i \in DOMAIN resps |-> resps[i].Data])

\* mutant of DedupSeries: the hash is never recorded in uniqueSeries
RECURSIVE DedupSeries_NoMark(_, _, _)
DedupSeries_NoMark(items, lokiSeriesData, uniqueSeries) ==
    IF items = <<>> THEN lokiSeriesData
    ELSE LET key == Hash(Head(items))
         IN IF key \notin uniqueSeries
            THEN DedupSeries_NoMark(Tail(items), Append(lokiSeriesData, Head(items)),
                                    uniqueSeries)
            ELSE DedupSeries_NoMark(Tail(items), lokiSeriesData, uniqueSeries)

\* the loop over the series of every response: a series is appended when its
\* hash is not yet in uniqueSeries
RECURSIVE DedupSeries(_, _, _)
DedupSeries(items, lokiSeriesData, uniqueSeries) ==
    IF items = <<>> THEN lokiSeriesData
    ELSE LET key == Hash(Head(items))
         IN IF key \notin uniqueSeries
            THEN DedupSeries(Tail(items), Append(lokiSeriesData, Head(items)),
                             uniqueSeries \cup {key})
            ELSE DedupSeries(Tail(items), lokiSeriesData, uniqueSeries)

MergeSeries(resps) ==
    [kind |-> "LokiSeriesResponse",
     Status |-> resps[1].Status,
     Version |-> resps[1].Version,
     Data |-> DedupSeries(AllData(resps), <<>>, {}),
     Statistics |-> MergedStats(resps),
     Headers |-> <<>>]

\* mutant of DedupNames: a name is recorded in uniqueNames only when it repeats
\* the name before it
RECURSIVE DedupNames_AdjacentOnly(_, _, _)
DedupNames_AdjacentOnly(items, names, uniqueNames) ==
    IF items = <<>> THEN names
    ELSE LET labelName == Head(items)
         IN IF labelName \notin uniqueNames
            THEN DedupNames_AdjacentOnly(Tail(items), Append(names, labelName), {labelName})
            ELSE DedupNames_AdjacentOnly(Tail(items), names, uniqueNames)

\* the loop over the names of every response: a name is appended when it is not
\* yet in uniqueNames
RECURSIVE DedupNames(_, _, _)
DedupNames(items, names, uniqueNames) ==
    IF items = <<>> THEN names
    ELSE LET labelName == Head(items)
         IN IF labelName \notin uniqueNames
            THEN DedupNames(Tail(items), Append(names, labelName),
                            uniqueNames \cup {labelName})
            ELSE DedupNames(Tail(items), names, uniqueNames)

MergeLabelNames(resps) ==
    [kind |-> "LokiLabelNamesResponse",
     Status |-> resps[1].Status,
     Version |-> resps[1].Version,
     Data |-> DedupNames(AllData(resps), <<>>, {}),
     Statistics |-> MergedStats(resps),
     Headers |-> <<>>]

\* ---------------------------------------------------------------- metric, index stats, volume
\* queryrangebase.PrometheusCodec.MergeResponse: the sample streams of the
\* inputs, concatenated
PrometheusMergeResponse(promResponses) ==
    [Status |-> promResponses[1].Status,
     Data |-> [ResultType |-> promResponses[1].Data.ResultType,
               Result |-> Flatten([i \in DOMAIN promResponses |->
                                      promResponses[i].Data.Result])],
     Headers |-> promResponses[1].Headers]

MergeProm(resps) ==
    [kind |-> "LokiPromResponse",
     Response |-> PrometheusMergeResponse([i \in DOMAIN resps |-> resps[i].Response]),
     Statistics |-> MergedStats(resps)]

\* indexStats.MergeStats: every field is the sum of the inputs' fields, a nil
\* input adding nothing
RECURSIVE MergeStats(_)
MergeStats(stats) ==
    IF stats = <<>> THEN [Streams |-> 0, Chunks |-> 0, Bytes |-> 0, Entries |-> 0]
    ELSE LET rest == MergeStats(Tail(stats))
             st == IF Head(stats) = Nil THEN MergeStats(<<>>) ELSE Head(stats)
         IN [Streams |-> st.Streams + rest.Streams,
             Chunks |-> st.Chunks + rest.Chunks,
             Bytes |-> st.Bytes + rest.Bytes,
             Entries |-> st.Entries + rest.Entries]

\* mutant of MergeIndexStats: the headers are those of the last response
MergeIndexStats_LastHeaders(resps) ==
    [kind |-> "IndexStatsResponse",
     Response |-> MergeStats([i \in DOMAIN resps |-> resps[i].Response]),
     Headers |-> resps[Len(resps)].Headers]

MergeIndexStats(resps) ==
    [kind |-> "IndexStatsResponse",
     Response |-> MergeStats([i \in DOMAIN resps |-> resps[i].Response]),
     Headers |-> resps[1].Headers]

\* seriesvolume.Merge: volumes of the same name are added, the result is ranked
\* by volume (largest first, names ascending among equals) and cut to limit;
\* a nil input holds no volumes
RECURSIVE RankVolumes(_, _)
RankVolumes(names, vol) ==
    IF names = {} THEN <<>>
    ELSE LET n == CHOOSE x \in names :
                     \A y \in names : vol[x] > vol[y] \/ (vol[x] = vol[y] /\ x <= y)
         IN <<[Name |-> n, Volume |-> vol[n]]>> \o RankVolumes(names \ {n}, vol)

VolumeMerge(resps, limit) ==
    LET all == Flatten([i \in DOMAIN resps |->
                           IF resps[i] = Nil THEN <<>> ELSE resps[i].Volumes])
        names == {v.Name : v \in Range(all)}
        vol == [n \in names |->
                   SeqSum([i \in DOMAIN all |-> IF all[i].Name = n THEN all[i].Volume ELSE 0])]
        ranked == RankVolumes(names, vol)
    IN [Volumes |-> IF limit < Len(ranked) THEN SubSeq(ranked, 1, limit) ELSE ranked,
        Limit |-> limit]

MergeVolume(resps) ==
    [kind |-> "VolumeResponse",
     Response |-> VolumeMerge([i \in DOMAIN resps |-> resps[i].Response],
                              resps[1].Response.Limit),
     Headers |-> resps[1].Headers]

\* the LokiSeriesResponseView and MergedSeriesResponseView cases
MergeSeriesViews(resps) ==
    [kind |-> "MergedSeriesResponseView",
     responses |-> Flatten([i \in DOMAIN resps |->
                               IF resps[i].kind = "MergedSeriesResponseView"
                               THEN resps[i].responses
                               ELSE <<resps[i]>>])]

\* ---------------------------------------------------------------- Codec.MergeResponse
ErrNoResponses == "merging responses requires at least one response"
ErrUnknownType == "unknown response type in merging responses"

\* the run-time panic of a field read through a nil pointer: the call does not
\* return
PanicNilDereference == "panic: invalid memory address or nil pointer dereference"

\* "resp0.Response.Limit" (line 1217) reads through resp0.Response
VolumeLimitPanics(resps) == resps[1].Response = Nil

\* mutant of MergeResponse: the default case hands the first response back
MergeResponse_PassThrough(resps) ==
    IF Len(resps) = 0 THEN [res |-> Nil, err |-> ErrNoResponses]
    ELSE LET k == resps[1].kind
         IN CASE k = "LokiPromResponse" -> [res |-> MergeProm(resps), err |-> ""]
              [] k = "LokiResponse" -> [res |-> mergeLokiResponse(resps), err |-> ""]
              [] k = "LokiSeriesResponse" -> [res |-> MergeSeries(resps), err |-> ""]
              [] k = "LokiSeriesResponseView" -> [res |-> MergeSeriesViews(resps), err |-> ""]
              [] k = "MergedSeriesResponseView" -> [res |-> MergeSeriesViews(resps), err |-> ""]
              [] k = "LokiLabelNamesResponse" -> [res |-> MergeLabelNames(resps), err |-> ""]
              [] k = "IndexStatsResponse" -> [res |-> MergeIndexStats(resps), err |-> ""]
              [] k = "VolumeResponse" ->
                    IF VolumeLimitPanics(resps) THEN [res |-> Nil, err |-> PanicNilDereference]
                    ELSE [res |-> MergeVolume(resps), err |-> ""]
              [] OTHER -> [res |-> resps[1], err |-> ""]

MergeResponse(resps) ==
    IF Len(resps) = 0 THEN [res |-> Nil, err |-> ErrNoResponses]
    ELSE LET k == resps[1].kind
         IN CASE k = "LokiPromResponse" -> [res |-> MergeProm(resps), err |-> ""]
              [] k = "LokiResponse" -> [res |-> mergeLokiResponse(resps), err |-> ""]
              [] k = "LokiSeriesResponse" -> [res |-> MergeSeries(resps), err |-> ""]
              [] k = "LokiSeriesResponseView" -> [res |-> MergeSeriesViews(resps), err |-> ""]
              [] k = "MergedSeriesResponseView" -> [res |-> MergeSeriesViews(resps), err |-> ""]
              [] k = "LokiLabelNamesResponse" -> [res |-> MergeLabelNames(resps), err |-> ""]
              [] k = "IndexStatsResponse" -> [res |-> MergeIndexStats(resps), err |-> ""]
              [] k = "VolumeResponse" ->
                    IF VolumeLimitPanics(resps) THEN [res |-> Nil, err |-> PanicNilDereference]
                    ELSE [res |-> MergeVolume(resps), err |-> ""]
              [] OTHER -> [res |-> Nil, err |-> ErrUnknownType]

\* ---------------------------------------------------------------- the inputs
HeaderLists == {<<>>, <<[Name |-> "Cache-Control", Values |-> <<"no-cache">>]>>}

StatsSet == [TotalBytesProcessed : 0..MaxStat, TotalLinesProcessed : 0..MaxStat]

Entries == [Timestamp : 1..MaxTs]

Streams == [Labels : 1..MaxLabel, Entries : SeqsUpTo(Entries, MaxEntries)]

LokiResponse(status, direction, limit, version, errorType, error, statistics, headers, result) ==
    [kind |-> "LokiResponse", Status |-> status, Direction |-> direction, Limit |-> limit,
     Version |-> version, ErrorType |-> errorType, Error |-> error,
     Statistics |-> statistics, Headers |-> headers,
     Data |-> [ResultType |-> ResultTypeStream, Result |-> result]]

\* shard responses of one query: same direction and limit, any streams
LogShardResponses(d, l) ==
    {LokiResponse(QueryStatusSuccess, d, l, 1, "", "", ZeroStats, <<>>, r) :
        r \in SeqsUpTo(Streams, MaxStreams)}

\* shard responses with one stream of ShardLen entries in timestamp order
OrderedRuns(d) ==
    {s \in [1..ShardLen -> 1..MaxShardTs] :
        \A i \in 1..(ShardLen - 1) : IF d = FORWARD THEN s[i] < s[i + 1] ELSE s[i] > s[i + 1]}

LogInterleavedResponses(d) ==
    {LokiResponse(QueryStatusSuccess, d, MaxLimit, 1, "", "", ZeroStats, <<>>,
                  <<[Labels |-> 1, Entries |-> [i \in 1..ShardLen |-> [Timestamp |-> s[i]]]]>>) :
        s \in OrderedRuns(d)}

SmallResults == {<<>>, <<[Labels |-> 1, Entries |-> <<[Timestamp |-> 1]>>]>>}

\* log responses that differ in statistics
LogStatsResponses ==
    {LokiResponse(QueryStatusSuccess, FORWARD, l, 1, "", "", st, <<>>, r) :
        l \in {0, MaxLimit}, st \in StatsSet, r \in SmallResults}

\* log responses that differ in status, error, version, headers, direction and limit
LogAttrResponses ==
    {LokiResponse(st, d, l, v, e, e, ZeroStats, h, <<[Labels |-> 1, Entries |-> <<[Timestamp |-> 1]>>]>>) :
        st \in {QueryStatusSuccess, QueryStatusFail}, d \in Directions, l \in {0, MaxLimit},
        v \in {0, 1}, e \in {"", "timeout"}, h \in HeaderLists}

SeriesIdentifiers == UNION {[D -> 1..MaxValue] : D \in SUBSET (1..MaxLabel)}

SeriesPayloadResponses ==
    [kind : {"LokiSeriesResponse"}, Status : {QueryStatusSuccess}, Version : {1},
     Data : SeqsUpTo(SeriesIdentifiers, MaxData), Statistics : {ZeroStats}, Headers : {<<>>}]

SeriesAttrResponses ==
    [kind : {"LokiSeriesResponse"}, Status : {QueryStatusSuccess, QueryStatusFail},
     Version : {0, 1}, Data : SeqsUpTo({[n \in {1} |-> 1]}, 1), Statistics : StatsSet,
     Headers : HeaderLists]

LabelNamesPayloadResponses ==
    [kind : {"LokiLabelNamesResponse"}, Status : {QueryStatusSuccess}, Version : {1},
     Data : SeqsUpTo(1..MaxLabel, MaxData), Statistics : {ZeroStats}, Headers : {<<>>}]

LabelNamesAttrResponses ==
    [kind : {"LokiLabelNamesResponse"}, Status : {QueryStatusSuccess, QueryStatusFail},
     Version : {0, 1}, Data : SeqsUpTo({1}, 1), Statistics : StatsSet, Headers : HeaderLists]

SampleStreams == [Labels : 1..MaxLabel, Samples : {<<[TimestampMs |-> 1, Value |-> 1]>>}]

PromResponses ==
    [kind : {"LokiPromResponse"},
     Response : [Status : {QueryStatusSuccess},
                 Data : [ResultType : {"matrix", "vector"}, Result : SeqsUpTo(SampleStreams, 1)],
                 Headers : HeaderLists],
     Statistics : StatsSet]

IndexStatsResponses ==
    [kind : {"IndexStatsResponse"},
     Response : [Streams : 0..MaxStat, Chunks : 0..MaxStat, Bytes : 0..MaxStat,
                 Entries : 0..MaxStat],
     Headers : HeaderLists]

VolumeResponses ==
    [kind : {"VolumeResponse"},
     Response : [Volumes : SeqsUpTo([Name : 1..MaxLabel, Volume : 1..2], MaxData),
                 Limit : 1..MaxData],
     Headers : HeaderLists]

SeriesResponseViews == [kind : {"LokiSeriesResponseView"}, buffer : 1..MaxData]

MergedSeriesResponseViews ==
    [kind : {"MergedSeriesResponseView"}, responses : SeqsUpTo(SeriesResponseViews, 1)]

\* a response type MergeResponse has no case for
UnknownResponses == {[kind |-> "OtherResponse"]}

\* the lists a caller passes are homogeneous: all from one of these sets
LogShardFamilies ==
    [n \in 1..(2 * (MaxLimit + 1)) |->
        LogShardResponses(IF n % 2 = 1 THEN FORWARD ELSE BACKWARD, (n - 1) \div 2)]

InputSets ==
    <<SeriesAttrResponses, LabelNamesAttrResponses, LogAttrResponses, LogStatsResponses,
      SeriesPayloadResponses, LabelNamesPayloadResponses,
      PromResponses, IndexStatsResponses, VolumeResponses,
      SeriesResponseViews, MergedSeriesResponseViews, UnknownResponses,
      LogInterleavedResponses(FORWARD), LogInterleavedResponses(BACKWARD)>>
    \o LogShardFamilies

InputKinds == [n \in DOMAIN InputSets |-> (CHOOSE r \in InputSets[n] : TRUE).kind]

\* ---------------------------------------------------------------- what a merge writes
\* The heap is a list of backing arrays; a slice is an array with a length,
\* the array's own length being the slice's capacity. The nil slice has no
\* array.
NilSlice == [array |-> 0, len |-> 0]

\* make([]T, 0, capacity)
Make(heap, capacity) ==
    [heap |-> Append(heap, [k \in 1..capacity |-> Nil]),
     slice |-> [array |-> Len(heap) + 1, len |-> 0]]

\* append(s, x): x is written behind the slice when the capacity allows it,
\* otherwise the elements move to a new array
GoAppend(heap, s, x) ==
    IF s.array # 0 /\ s.len < Len(heap[s.array])
    THEN [heap |-> [heap EXCEPT ![s.array][s.len + 1] = x],
          slice |-> [array |-> s.array, len |-> s.len + 1]]
    ELSE LET old == IF s.array = 0 THEN <<>> ELSE SubSeq(heap[s.array], 1, s.len)
         IN [heap |-> Append(heap, Append(old, x)),
             slice |-> [array |-> Len(heap) + 1, len |-> s.len + 1]]

\* the heap after appending every element of xs to s in turn
RECURSIVE AppendAll(_, _, _)
AppendAll(heap, s, xs) ==
    IF xs = <<>> THEN heap
    ELSE LET r == GoAppend(heap, s, Head(xs))
         IN AppendAll(r.heap, r.slice, Tail(xs))

\* the Data arrays of the inputs, array i backing responses[i].Data
DataArrays(resps) == [i \in DOMAIN resps |-> resps[i].Data]

\* the inputs as the heap shows them: every Data keeps its length
WithDataFrom(resps, heap) ==
    [i \in DOMAIN resps |->
        [resps[i] EXCEPT !.Data = SubSeq(heap[i], 1, Len(resps[i].Data))]]

\* mutant of SeriesInputsAfter: the unique series are collected in place,
\* "lokiSeriesData := lokiSeriesRes.Data[:0]"
SeriesInputsAfter_InPlace(resps) ==
    WithDataFrom(resps,
        AppendAll(DataArrays(resps), [array |-> 1, len |-> 0], MergeSeries(resps).Data))

\* case *LokiSeriesResponse (lines 1114-1160): lokiSeriesData starts nil and
\* takes every unique series by append
SeriesInputsAfter(resps) ==
    WithDataFrom(resps, AppendAll(DataArrays(resps), NilSlice, MergeSeries(resps).Data))

\* case *LokiLabelNamesResponse (lines 1171-1192): names starts as an empty
\* slice of its own and takes every unique name by append
LabelNamesInputsAfter(resps) ==
    LET names == Make(DataArrays(resps), 0)
    IN WithDataFrom(resps, AppendAll(names.heap, names.slice, MergeLabelNames(resps).Data))

\* the Entries arrays of the inputs, stream by stream in list order
EntriesArrays(resps) ==
    Flatten([i \in DOMAIN resps |->
                [j \in DOMAIN resps[i].Data.Result |-> resps[i].Data.Result[j].Entries]])

\* the index in EntriesArrays of the array before the first of response i
ArraysBefore(resps, i) == SeqSum([k \in 1..(i - 1) |-> Len(resps[k].Data.Result)])

\* each result stream's entries are appended to a slice made for it with the
\* given capacity (a negative capacity: the number of entries)
RECURSIVE WriteResults(_, _, _)
WriteResults(heap, results, capacity) ==
    IF results = <<>> THEN heap
    ELSE LET entries == Head(results).Entries
             s == Make(heap, IF capacity < 0 THEN Len(entries) ELSE capacity)
         IN WriteResults(AppendAll(s.heap, s.slice, entries), Tail(results), capacity)

\* mergeOrderedNonOverlappingStreams (lines 1226-1318): markers alias the
\* input entries and are only read; the escape hatch returns the arrays
\* byDir.merge makes, the pop loop appends to "make([]logproto.Entry, 0,
\* int(limit)/len(keys))"
LogInputsAfter(resps) ==
    LET limit == resps[1].Limit
        results == mergeLokiResponse(resps).Data.Result
        capacity == IF Total(resps, limit) <= limit THEN -1
                    ELSE limit \div Cardinality(GroupKeys(resps, limit))
        heap == WriteResults(EntriesArrays(resps), results, capacity)
    IN [i \in DOMAIN resps |->
          [resps[i] EXCEPT !.Data.Result =
              [j \in DOMAIN resps[i].Data.Result |->
                  [Labels |-> resps[i].Data.Result[j].Labels,
                   Entries |-> SubSeq(heap[ArraysBefore(resps, i) + j], 1,
                                      Len(resps[i].Data.Result[j].Entries))]]]]

\* Codec.MergeResponse (lines 1091-1223), the inputs as the call leaves them.
\* The other cases append only to slices they make (promResponses, stats,
\* resps, v.responses), and what they append are references to the inputs.
InputsAfterMerge(resps) ==
    IF Len(resps) = 0 THEN resps
    ELSE LET k == resps[1].kind
         IN CASE k = "LokiResponse" -> LogInputsAfter(resps)
              [] k = "LokiSeriesResponse" -> SeriesInputsAfter(resps)
              [] k = "LokiLabelNamesResponse" -> LabelNamesInputsAfter(resps)
              [] OTHER -> resps

\* ---------------------------------------------------------------- the merger's caller
Init ==
    /\ responses = <<>>
    /\ merged = Nil
    /\ err = ""
    /\ pc = "build"
    /\ reqs = <<>>
    /\ cells = <<>>
    /\ ctx = Nil
    /\ transport = Nil
    /\ returned = Nil

\* the caller collects one more shard response
AddResponse ==
    /\ pc = "build"
    /\ Len(responses) < MaxResp
    /\ \E n \in DOMAIN InputSets :
          /\ \A i \in DOMAIN responses :
                /\ responses[i].kind = InputKinds[n]
                /\ responses[i] \in InputSets[n]
          /\ \E r \in InputSets[n] : responses' = Append(responses, r)
    /\ UNCHANGED <<merged, err, pc, reqs, cells, ctx, transport, returned>>

\* Codec.MergeResponse(responses...)
CallMergeResponse ==
    /\ pc = "build"
    /\ LET out == MergeResponse(responses)
       IN /\ merged' = out.res
          /\ err' = out.err
    /\ responses' = InputsAfterMerge(responses)
    /\ pc' = IF err' = PanicNilDereference THEN "panicked" ELSE "merged"
    /\ UNCHANGED <<reqs, cells, ctx, transport, returned>>

Next == AddResponse \/ CallMergeResponse

Spec == Init /\ [][Next]_vars

\* ---------------------------------------------------------------- request variants
Queries == {"{job=\"a\"}", "{job=\"b\"}"}

Times == 1..MaxTs

\* logql.Shards values handed to WithShards
ShardLists == {<<>>, <<[Shard |-> 0, Of |-> 2], [Shard |-> 1, Of |-> 2]>>}

\* logql.Shards.Encode: one string "<shard>_of_<of>" for each shard
ShardsEncode(shards) == [i \in DOMAIN shards |-> <<shards[i].Shard, "_of_", shards[i].Of>>]

LokiRequests ==
    [kind : {"LokiRequest"}, Query : Queries, Limit : {100}, Step : {0}, Interval : {0},
     StartTs : Times, EndTs : Times, Direction : {FORWARD}, Path : {"/loki/api/v1/query_range"},
     Shards : {<<>>}]

LokiInstantRequests ==
    [kind : {"LokiInstantRequest"}, Query : Queries, Limit : {100}, TimeTs : Times,
     Direction : {BACKWARD}, Path : {"/loki/api/v1/query"}, Shards : {<<>>}]

LokiSeriesRequests ==
    [kind : {"LokiSeriesRequest"}, Match : Queries, StartTs : Times, EndTs : Times,
     Path : {"/loki/api/v1/series"}, Shards : {<<>>}]

\* NewLabelRequest: Start and End point to two fresh cells holding start and end
NewLabelRequest(startCell, endCell, query, name, path) ==
    [kind |-> "LabelRequest", path |-> path, Start |-> startCell, End |-> endCell,
     Query |-> query, Name |-> name, Values |-> (name # "")]

GetStart(r, cs) ==
    CASE r.kind = "LokiInstantRequest" -> r.TimeTs
      [] r.kind = "LabelRequest" -> cs[r.Start]
      [] OTHER -> r.StartTs

GetEnd(r, cs) ==
    CASE r.kind = "LokiInstantRequest" -> r.TimeTs
      [] r.kind = "LabelRequest" -> cs[r.End]
      [] OTHER -> r.EndTs

GetQuery(r) == IF r.kind = "LokiSeriesRequest" THEN "" ELSE r.Query

GetPath(r) == IF r.kind = "LabelRequest" THEN r.path ELSE r.Path

GetShards(r) == IF r.kind = "LabelRequest" THEN <<>> ELSE r.Shards

GetLimit(r) == IF r.kind \in {"LokiRequest", "LokiInstantRequest"} THEN r.Limit ELSE 0

GetDirection(r) ==
    IF r.kind \in {"LokiRequest", "LokiInstantRequest"} THEN r.Direction ELSE FORWARD

\* mutant of LabelRequestWithStartEnd: the bounds are stored through the
\* pointers the clone shares with the receiver ("*clone.Start = s")
LabelRequestWithStartEnd_WriteThrough(rs, cs, i, s, e) ==
    [reqs |-> Append(rs, rs[i]),
     cells |-> [[cs EXCEPT ![rs[i].Start] = s] EXCEPT ![rs[i].End] = e]]

\* LabelRequest.WithStartEnd: clone := *r; tmp := s; clone.Start = &tmp;
\* tmp = e; clone.End = &tmp.  tmp is one variable: both fields point to it
\* and it holds e when the method returns
LabelRequestWithStartEnd(rs, cs, i, s, e) ==
    LET tmp == Len(cs) + 1
    IN [reqs |-> Append(rs, [rs[i] EXCEPT !.Start = tmp, !.End = tmp]),
        cells |-> Append(cs, e)]

\* LokiRequest.WithStartEnd, LokiRequest.WithStartEndTime,
\* LokiSeriesRequest.WithStartEnd: clone := *r with StartTs and EndTs replaced
RangeWithStartEnd(rs, cs, i, s, e) ==
    [reqs |-> Append(rs, [rs[i] EXCEPT !.StartTs = s, !.EndTs = e]), cells |-> cs]

\* LokiInstantRequest.WithStartEnd: clone := *r with TimeTs = s, e is dropped
InstantWithStartEnd(rs, cs, i, s, e) ==
    [reqs |-> Append(rs, [rs[i] EXCEPT !.TimeTs = s]), cells |-> cs]

WithStartEndOf(rs, cs, i, s, e) ==
    CASE rs[i].kind = "LabelRequest" -> LabelRequestWithStartEnd(rs, cs, i, s, e)
      [] rs[i].kind = "LokiInstantRequest" -> InstantWithStartEnd(rs, cs, i, s, e)
      [] OTHER -> RangeWithStartEnd(rs, cs, i, s, e)

\* WithQuery: clone := *r with Query replaced; LokiSeriesRequest.WithQuery
\* returns the plain copy
WithQueryOf(rs, i, query) ==
    IF rs[i].kind = "LokiSeriesRequest" THEN Append(rs, rs[i])
    ELSE Append(rs, [rs[i] EXCEPT !.Query = query])

\* LokiRequest.WithShards, LokiInstantRequest.WithShards
WithShardsOf(rs, i, shards) == Append(rs, [rs[i] EXCEPT !.Shards = ShardsEncode(shards)])

InitReq ==
    /\ responses = <<>>
    /\ merged = Nil
    /\ err = ""
    /\ pc = "requests"
    /\ ctx = Nil
    /\ transport = Nil
    /\ returned = Nil
    /\ \/ /\ reqs \in {<<r>> : r \in LokiRequests \cup LokiInstantRequests \cup LokiSeriesRequests}
          /\ cells = <<>>
       \/ \E start \in Times, end \in Times, query \in Queries, name \in {"", "job"} :
             /\ reqs = <<NewLabelRequest(1, 2, query, name,
                                         IF name = "" THEN "/loki/api/v1/labels"
                                         ELSE "/loki/api/v1/label/job/values")>>
             /\ cells = <<start, end>>

\* r.WithStartEnd(s, e) on any request object made so far
WithStartEnd ==
    /\ Len(reqs) < MaxReqs
    /\ \E i \in DOMAIN reqs, s \in Times, e \in Times :
          LET out == WithStartEndOf(reqs, cells, i, s, e)
          IN /\ reqs' = out.reqs
             /\ cells' = out.cells
    /\ UNCHANGED <<responses, merged, err, pc, ctx, transport, returned>>

\* r.WithStartEndTime(s, e), which only LokiRequest has
WithStartEndTime ==
    /\ Len(reqs) < MaxReqs
    /\ \E i \in DOMAIN reqs, s \in Times, e \in Times :
          /\ reqs[i].kind = "LokiRequest"
          /\ reqs' = RangeWithStartEnd(reqs, cells, i, s, e).reqs
    /\ UNCHANGED <<responses, merged, err, pc, cells, ctx, transport, returned>>

\* r.WithQuery(query)
WithQuery ==
    /\ Len(reqs) < MaxReqs
    /\ \E i \in DOMAIN reqs, query \in Queries : reqs' = WithQueryOf(reqs, i, query)
    /\ UNCHANGED <<responses, merged, err, pc, cells, ctx, transport, returned>>

\* r.WithShards(shards), which LokiRequest and LokiInstantRequest have
WithShards ==
    /\ Len(reqs) < MaxReqs
    /\ \E i \in DOMAIN reqs, shards \in ShardLists :
          /\ reqs[i].kind \in {"LokiRequest", "LokiInstantRequest"}
          /\ reqs' = WithShardsOf(reqs, i, shards)
    /\ UNCHANGED <<responses, merged, err, pc, cells, ctx, transport, returned>>

NextReq == WithStartEnd \/ WithStartEndTime \/ WithQuery \/ WithShards

SpecReq == InitReq /\ [][NextReq]_vars

\* ---------------------------------------------------------------- request codec: the values
MaxStep == 2       \* steps and intervals 0..MaxStep, in milliseconds

\* an httpgrpc error carries an HTTP status code and a body; a plain Go error
\* (fmt.Errorf, user.ErrNoOrgID) carries no status, which is code 0 here
StatusBadRequest == 400
StatusNotFound == 404
StatusInternalServerError == 500
PlainError == 0

Errorf(code, body) == [code |-> code, body |-> body]

ErrNoOrgID == Errorf(PlainError, "no org id")

OrgIDHeaderName == "X-Scope-OrgID"
QueryTagsHTTPHeader == "X-Query-Tags"

\* the contexts: with or without a tenant, with or without query tags; they
\* carry no encoding flags, actor path or query limits
Contexts == [orgID : {"", "tenant-1"}, queryTags : {"", "source=ui"}]

RequestLimits == {0, 100}

Steps == 0..MaxStep

EncodedShards == {ShardsEncode(shards) : shards \in ShardLists}

\* model.Time counts milliseconds, time.Time is read in nanoseconds
NanosPerMilli == 1000000

\* "%f" prints seconds with six decimals
MillisPerSecond == 1000
MicrosPerMilli == 1000

RangePaths == {"/loki/api/v1/query_range", "/api/prom/query"}

CodecLokiRequests ==
    [kind : {"LokiRequest"}, Query : Queries, Limit : RequestLimits, Step : Steps,
     Interval : {0, MaxStep}, StartTs : Times, EndTs : Times, Direction : Directions,
     Path : RangePaths, Shards : EncodedShards]

CodecLokiInstantRequests ==
    [kind : {"LokiInstantRequest"}, Query : Queries, Limit : RequestLimits, TimeTs : Times,
     Direction : Directions, Path : {"/loki/api/v1/query"}, Shards : EncodedShards]

CodecLokiSeriesRequests ==
    [kind : {"LokiSeriesRequest"}, Match : {<<q>> : q \in Queries}, StartTs : Times,
     EndTs : Times, Path : {"/loki/api/v1/series"}, Shards : EncodedShards]

\* logproto.IndexStatsRequest: From and Through are model.Time (milliseconds)
IndexStatsRequests ==
    [kind : {"IndexStatsRequest"}, From : Times, Through : Times, Matchers : Queries]

\* logproto.VolumeRequest
VolumeRequests ==
    [kind : {"VolumeRequest"}, From : Times, Through : Times, Matchers : Queries,
     Limit : RequestLimits, Step : Steps, TargetLabels : {<<>>, <<"job">>},
     AggregateBy : {"series", "labels"}]

\* a queryrangebase.Request of a type the codec has no case for
OtherRequests == {[kind |-> "OtherRequest"]}

LabelPaths == {"/loki/api/v1/label", "/loki/api/v1/label/job/values"}

\* ---------------------------------------------------------------- Codec.EncodeRequest
\* A query-string value is modelled by what was printed into it: [int |-> n]
\* for "%d", [sec |-> a, micro |-> b] for "%f" (a.bbbbbb seconds), [str |-> s]
\* for a string, [strs |-> list] for a repeated parameter, [bad |-> s] for text
\* that is no value of the parameter.
FormatInt(n) == [int |-> n]

\* fmt.Sprintf("%f", float64(ms)/float64(1e3))
FormatSeconds(ms) ==
    [sec |-> ms \div MillisPerSecond, micro |-> (ms % MillisPerSecond) * MicrosPerMilli]

FormatString(str) == [str |-> str]

\* strings.Join(labels, ",")
JoinLabels(labels) == [str |-> labels]

\* model.Time.Time().UnixNano()
ModelTimeUnixNano(ms) == ms * NanosPerMilli

When(cond, f) == IF cond THEN f ELSE << >>

\* the header EncodeRequest builds from the context (lines 551-580)
EncodeHeader(c) ==
    When(c.queryTags # "", QueryTagsHTTPHeader :> c.queryTags) @@ (OrgIDHeaderName :> c.orgID)

HTTPRequest(path, params, header) ==
    [Method |-> "GET", Path |-> path, Form |-> params, Header |-> header]

\* mutant of EncodeLokiRequest: the bounds are printed in milliseconds
EncodeLokiRequest_Millis(request, header) ==
    HTTPRequest("/loki/api/v1/query_range",
        [start |-> FormatInt(request.StartTs \div NanosPerMilli),
         end |-> FormatInt(request.EndTs \div NanosPerMilli),
         query |-> FormatString(request.Query),
         direction |-> FormatString(request.Direction), limit |-> FormatInt(request.Limit)]
        @@ When(Len(request.Shards) > 0, [shards |-> [strs |-> request.Shards]])
        @@ When(request.Step # 0, [step |-> FormatSeconds(request.Step)])
        @@ When(request.Interval # 0, [interval |-> FormatSeconds(request.Interval)]),
        header)

\* case *LokiRequest (lines 583-613)
EncodeLokiRequest(request, header) ==
    HTTPRequest("/loki/api/v1/query_range",
        [start |-> FormatInt(request.StartTs), end |-> FormatInt(request.EndTs),
         query |-> FormatString(request.Query),
         direction |-> FormatString(request.Direction), limit |-> FormatInt(request.Limit)]
        @@ When(Len(request.Shards) > 0, [shards |-> [strs |-> request.Shards]])
        @@ When(request.Step # 0, [step |-> FormatSeconds(request.Step)])
        @@ When(request.Interval # 0, [interval |-> FormatSeconds(request.Interval)]),
        header)

\* case *LokiSeriesRequest (lines 614-634)
EncodeLokiSeriesRequest(request, header) ==
    HTTPRequest("/loki/api/v1/series",
        [start |-> FormatInt(request.StartTs), end |-> FormatInt(request.EndTs),
         match |-> [strs |-> request.Match]]
        @@ When(Len(request.Shards) > 0, [shards |-> [strs |-> request.Shards]]),
        header)

\* case *LabelRequest (lines 635-653): the request's own path is forwarded
EncodeLabelRequest(request, cs, header) ==
    HTTPRequest(request.path,
        [start |-> FormatInt(cs[request.Start]), end |-> FormatInt(cs[request.End]),
         query |-> FormatString(request.Query)],
        header)

\* case *LokiInstantRequest (lines 654-677)
EncodeLokiInstantRequest(request, header) ==
    HTTPRequest("/loki/api/v1/query",
        [query |-> FormatString(request.Query),
         direction |-> FormatString(request.Direction), limit |-> FormatInt(request.Limit),
         time |-> FormatInt(request.TimeTs)]
        @@ When(Len(request.Shards) > 0, [shards |-> [strs |-> request.Shards]]),
        header)

\* case *logproto.IndexStatsRequest (lines 678-695)
EncodeIndexStatsRequest(request, header) ==
    HTTPRequest("/loki/api/v1/index/stats",
        [start |-> FormatInt(ModelTimeUnixNano(request.From)),
         end |-> FormatInt(ModelTimeUnixNano(request.Through)),
         query |-> FormatString(request.Matchers)],
        header)

\* mutant of EncodeVolumeRequest: every volume request goes to the range route
EncodeVolumeRequest_RangeRoute(request, header) ==
    HTTPRequest("/loki/api/v1/index/volume_range",
        [start |-> FormatInt(ModelTimeUnixNano(request.From)),
         end |-> FormatInt(ModelTimeUnixNano(request.Through)),
         query |-> FormatString(request.Matchers), limit |-> FormatInt(request.Limit),
         aggregateBy |-> FormatString(request.AggregateBy)]
        @@ When(Len(request.TargetLabels) > 0,
                [targetLabels |-> JoinLabels(request.TargetLabels)])
        @@ When(request.Step # 0, [step |-> FormatSeconds(request.Step)]),
        header)

\* case *logproto.VolumeRequest (lines 696-729): the step decides the route
EncodeVolumeRequest(request, header) ==
    HTTPRequest(IF request.Step # 0 THEN "/loki/api/v1/index/volume_range"
                ELSE "/loki/api/v1/index/volume",
        [start |-> FormatInt(ModelTimeUnixNano(request.From)),
         end |-> FormatInt(ModelTimeUnixNano(request.Through)),
         query |-> FormatString(request.Matchers), limit |-> FormatInt(request.Limit),
         aggregateBy |-> FormatString(request.AggregateBy)]
        @@ When(Len(request.TargetLabels) > 0,
                [targetLabels |-> JoinLabels(request.TargetLabels)])
        @@ When(request.Step # 0, [step |-> FormatSeconds(request.Step)]),
        header)

ErrInvalidRequestFormat == Errorf(StatusInternalServerError, "invalid request format")

\* mutant of EncodeRequest: the request is built before the tenant is looked up
\* and returned without the tenant header when there is none
EncodeRequest_TenantOptional(c, r, cs) ==
    LET header == When(c.queryTags # "", QueryTagsHTTPHeader :> c.queryTags)
                  @@ When(c.orgID # "", OrgIDHeaderName :> c.orgID)
    IN CASE r.kind = "LokiRequest" -> [res |-> EncodeLokiRequest(r, header), err |-> Nil]
         [] r.kind = "LokiSeriesRequest" -> [res |-> EncodeLokiSeriesRequest(r, header), err |-> Nil]
         [] r.kind = "LabelRequest" -> [res |-> EncodeLabelRequest(r, cs, header), err |-> Nil]
         [] r.kind = "LokiInstantRequest" -> [res |-> EncodeLokiInstantRequest(r, header), err |-> Nil]
         [] r.kind = "IndexStatsRequest" -> [res |-> EncodeIndexStatsRequest(r, header), err |-> Nil]
         [] r.kind = "VolumeRequest" -> [res |-> EncodeVolumeRequest(r, header), err |-> Nil]
         [] OTHER -> [res |-> Nil, err |-> ErrInvalidRequestFormat]

\* Codec.EncodeRequest (lines 550-733)
EncodeRequest(c, r, cs) ==
    IF c.orgID = "" THEN [res |-> Nil, err |-> ErrNoOrgID]
    ELSE LET header == EncodeHeader(c)
         IN CASE r.kind = "LokiRequest" -> [res |-> EncodeLokiRequest(r, header), err |-> Nil]
              [] r.kind = "LokiSeriesRequest" -> [res |-> EncodeLokiSeriesRequest(r, header), err |-> Nil]
              [] r.kind = "LabelRequest" -> [res |-> EncodeLabelRequest(r, cs, header), err |-> Nil]
              [] r.kind = "LokiInstantRequest" -> [res |-> EncodeLokiInstantRequest(r, header), err |-> Nil]
              [] r.kind = "IndexStatsRequest" -> [res |-> EncodeIndexStatsRequest(r, header), err |-> Nil]
              [] r.kind = "VolumeRequest" -> [res |-> EncodeVolumeRequest(r, header), err |-> Nil]
              [] OTHER -> [res |-> Nil, err |-> ErrInvalidRequestFormat]

\* RequestProtobufCodec.EncodeRequest (lines 755-763)
ProtobufEncodeRequest(c, r, cs) ==
    LET out == EncodeRequest(c, r, cs)
    IN IF out.err # Nil THEN [res |-> Nil, err |-> out.err]
       ELSE [res |-> [out.res EXCEPT !.Header = ("Accept" :> "application/vnd.google.protobuf") @@ @],
             err |-> Nil]

\* ---------------------------------------------------------------- the route table and the parameter parsers
QueryRangeOp == "query_range"
InstantQueryOp == "instant_query"
SeriesOp == "series"
LabelNamesOp == "labels"
IndexStatsOp == "index_stats"
VolumeOp == "volume"
VolumeRangeOp == "volume_range"

\* getOperation: the route table; "" for a path of no route
getOperation(path) ==
    CASE path \in RangePaths -> QueryRangeOp
      [] path = "/loki/api/v1/query" -> InstantQueryOp
      [] path = "/loki/api/v1/series" -> SeriesOp
      [] path \in LabelPaths -> LabelNamesOp
      [] path = "/loki/api/v1/index/stats" -> IndexStatsOp
      [] path = "/loki/api/v1/index/volume" -> VolumeOp
      [] path = "/loki/api/v1/index/volume_range" -> VolumeRangeOp
      [] OTHER -> ""

Has(form, name) == name \in DOMAIN form

IsInt(form, name) == Has(form, name) /\ DOMAIN form[name] = {"int"}

IsSeconds(form, name) == Has(form, name) /\ DOMAIN form[name] = {"sec", "micro"}

IsString(form, name) == Has(form, name) /\ DOMAIN form[name] = {"str"}

\* the repeated parameter's values, none when it is absent
Strings(form, name) == IF Has(form, name) THEN form[name].strs ELSE <<>>

\* a duration parameter in microseconds: fractional seconds, zero when absent
Micros(form, name) ==
    IF Has(form, name) THEN form[name].sec * MillisPerSecond * MicrosPerMilli + form[name].micro
    ELSE 0

\* time.Duration.Milliseconds
Milliseconds(micros) == micros \div MicrosPerMilli

\* the parse failure of a parameter, named by the parameter
ErrParse(name) == Errorf(StatusBadRequest, name)

\* the first parameter among names that the form lacks or that is no integer,
\* "" when there is none
FirstNotInt(form, names) ==
    LET bad == {i \in DOMAIN names : ~IsInt(form, names[i])}
    IN IF bad = {} THEN "" ELSE names[CHOOSE i \in bad : \A j \in bad : i <= j]

\* the same for string parameters
FirstNotString(form, names) ==
    LET bad == {i \in DOMAIN names : ~IsString(form, names[i])}
    IN IF bad = {} THEN "" ELSE names[CHOOSE i \in bad : \A j \in bad : i <= j]

StepOk(form) == ~Has(form, "step") \/ IsSeconds(form, "step")

IntervalOk(form) == ~Has(form, "interval") \/ IsSeconds(form, "interval")

DirectionOk(form) == IsString(form, "direction") /\ form.direction.str \in Directions

\* loghttp.ParseRangeQuery: nanosecond bounds, fractional-second step and
\* interval, integer limit, direction name, repeated shards
ParseRangeQuery(form) ==
    CASE FirstNotInt(form, <<"start", "end", "limit">>) # "" ->
            [val |-> Nil, err |-> ErrParse(FirstNotInt(form, <<"start", "end", "limit">>))]
      [] ~IsString(form, "query") -> [val |-> Nil, err |-> ErrParse("query")]
      [] ~DirectionOk(form) -> [val |-> Nil, err |-> ErrParse("direction")]
      [] ~StepOk(form) -> [val |-> Nil, err |-> ErrParse("step")]
      [] ~IntervalOk(form) -> [val |-> Nil, err |-> ErrParse("interval")]
      [] OTHER ->
            [val |-> [Query |-> form.query.str, Limit |-> form.limit.int,
                      Direction |-> form.direction.str, Start |-> form.start.int,
                      End |-> form.end.int, Step |-> Micros(form, "step"),
                      Interval |-> Micros(form, "interval"),
                      Shards |-> Strings(form, "shards")],
             err |-> Nil]

\* loghttp.ParseInstantQuery
ParseInstantQuery(form) ==
    CASE FirstNotInt(form, <<"time", "limit">>) # "" ->
            [val |-> Nil, err |-> ErrParse(FirstNotInt(form, <<"time", "limit">>))]
      [] ~IsString(form, "query") -> [val |-> Nil, err |-> ErrParse("query")]
      [] ~DirectionOk(form) -> [val |-> Nil, err |-> ErrParse("direction")]
      [] OTHER ->
            [val |-> [Query |-> form.query.str, Limit |-> form.limit.int,
                      Direction |-> form.direction.str, Ts |-> form.time.int,
                      Shards |-> Strings(form, "shards")],
             err |-> Nil]

\* loghttp.ParseAndValidateSeriesQuery
ParseAndValidateSeriesQuery(form) ==
    CASE FirstNotInt(form, <<"start", "end">>) # "" ->
            [val |-> Nil, err |-> ErrParse(FirstNotInt(form, <<"start", "end">>))]
      [] Strings(form, "match") = <<>> -> [val |-> Nil, err |-> ErrParse("match[]")]
      [] OTHER ->
            [val |-> [Groups |-> form.match.strs, Start |-> form.start.int,
                      End |-> form.end.int, Shards |-> Strings(form, "shards")],
             err |-> Nil]

\* loghttp.ParseLabelQuery, loghttp.ParseIndexStatsQuery: bounds and a query
ParseBoundsAndQuery(form) ==
    CASE FirstNotInt(form, <<"start", "end">>) # "" ->
            [val |-> Nil, err |-> ErrParse(FirstNotInt(form, <<"start", "end">>))]
      [] ~IsString(form, "query") -> [val |-> Nil, err |-> ErrParse("query")]
      [] OTHER ->
            [val |-> [Start |-> form.start.int, End |-> form.end.int,
                      Query |-> form.query.str],
             err |-> Nil]

\* loghttp.ParseVolumeInstantQuery, loghttp.ParseVolumeRangeQuery
ParseVolumeQuery(form) ==
    CASE FirstNotInt(form, <<"start", "end", "limit">>) # "" ->
            [val |-> Nil, err |-> ErrParse(FirstNotInt(form, <<"start", "end", "limit">>))]
      [] FirstNotString(form, <<"query", "aggregateBy">>) # "" ->
            [val |-> Nil, err |-> ErrParse(FirstNotString(form, <<"query", "aggregateBy">>))]
      [] ~StepOk(form) -> [val |-> Nil, err |-> ErrParse("step")]
      [] OTHER ->
            [val |-> [Start |-> form.start.int, End |-> form.end.int,
                      Query |-> form.query.str, Limit |-> form.limit.int,
                      Step |-> Micros(form, "step"),
                      TargetLabels |-> IF Has(form, "targetLabels")
                                       THEN form.targetLabels.str ELSE <<>>,
                      AggregateBy |-> form.aggregateBy.str],
             err |-> Nil]

\* util.RoundToMilliseconds: from rounded down, through rounded up
RoundToMilliseconds(from, through) ==
    [from |-> from \div NanosPerMilli,
     through |-> (through + NanosPerMilli - 1) \div NanosPerMilli]

\* ---------------------------------------------------------------- Codec.DecodeRequest, Codec.DecodeHTTPGrpcRequest
\* a raw query string that url.ParseQuery rejects
BadForm == [bad |-> "%zz"]

ParseFormFails(r) == r.Form = BadForm

\* the {name} of the label values route (mux variable, labelNamesRoutes)
LabelNameOf(path) == IF path = "/loki/api/v1/label/job/values" THEN "job" ELSE ""

BadRequest(e) == [res |-> Nil, err |-> Errorf(StatusBadRequest, e.body)]

\* the cases of the route switch, which the two decoders share but for the
\* Path they store (lines 256-348 and 407-505); a label request points to two
\* fresh cells
DecodeOp(op, form, path, urlPath, cs) ==
    CASE op = QueryRangeOp ->
            LET q == ParseRangeQuery(form)
            IN IF q.err # Nil THEN BadRequest(q.err) @@ [cells |-> cs]
               ELSE [res |-> [kind |-> "LokiRequest", Query |-> q.val.Query,
                              Limit |-> q.val.Limit, Direction |-> q.val.Direction,
                              StartTs |-> q.val.Start, EndTs |-> q.val.End,
                              Step |-> Milliseconds(q.val.Step),
                              Interval |-> Milliseconds(q.val.Interval),
                              Path |-> path, Shards |-> q.val.Shards],
                     err |-> Nil, cells |-> cs]
      [] op = InstantQueryOp ->
            LET q == ParseInstantQuery(form)
            IN IF q.err # Nil THEN BadRequest(q.err) @@ [cells |-> cs]
               ELSE [res |-> [kind |-> "LokiInstantRequest", Query |-> q.val.Query,
                              Limit |-> q.val.Limit, Direction |-> q.val.Direction,
                              TimeTs |-> q.val.Ts, Path |-> path, Shards |-> q.val.Shards],
                     err |-> Nil, cells |-> cs]
      [] op = SeriesOp ->
            LET q == ParseAndValidateSeriesQuery(form)
            IN IF q.err # Nil THEN BadRequest(q.err) @@ [cells |-> cs]
               ELSE [res |-> [kind |-> "LokiSeriesRequest", Match |-> q.val.Groups,
                              StartTs |-> q.val.Start, EndTs |-> q.val.End,
                              Path |-> path, Shards |-> q.val.Shards],
                     err |-> Nil, cells |-> cs]
      [] op = LabelNamesOp ->
            LET q == ParseBoundsAndQuery(form)
            IN IF q.err # Nil THEN BadRequest(q.err) @@ [cells |-> cs]
               ELSE [res |-> NewLabelRequest(Len(cs) + 1, Len(cs) + 2, q.val.Query,
                                             LabelNameOf(urlPath), urlPath),
                     err |-> Nil, cells |-> cs \o <<q.val.Start, q.val.End>>]
      [] op = IndexStatsOp ->
            LET q == ParseBoundsAndQuery(form)
            IN IF q.err # Nil THEN BadRequest(q.err) @@ [cells |-> cs]
               ELSE LET ms == RoundToMilliseconds(q.val.Start, q.val.End)
                    IN [res |-> [kind |-> "IndexStatsRequest", From |-> ms.from,
                                 Through |-> ms.through, Matchers |-> q.val.Query],
                        err |-> Nil, cells |-> cs]
      [] op \in {VolumeOp, VolumeRangeOp} ->
            LET q == ParseVolumeQuery(form)
            IN IF q.err # Nil THEN BadRequest(q.err) @@ [cells |-> cs]
               ELSE LET ms == RoundToMilliseconds(q.val.Start, q.val.End)
                    IN [res |-> [kind |-> "VolumeRequest", From |-> ms.from,
                                 Through |-> ms.through, Matchers |-> q.val.Query,
                                 Limit |-> q.val.Limit,
                                 Step |-> IF op = VolumeOp THEN 0
                                          ELSE Milliseconds(q.val.Step),
                                 TargetLabels |-> q.val.TargetLabels,
                                 AggregateBy |-> q.val.AggregateBy],
                        err |-> Nil, cells |-> cs]

ErrUnknownPath(code) == Errorf(code, "unknown request path")

\* mutant of DecodeRequest: a path of no route is taken for a range query
DecodeRequest_DefaultRange(r, cs) ==
    IF ParseFormFails(r)
    THEN [res |-> Nil, err |-> Errorf(StatusBadRequest, "invalid URL escape"), cells |-> cs]
    ELSE DecodeOp(IF getOperation(r.Path) = "" THEN QueryRangeOp ELSE getOperation(r.Path),
                  r.Form, r.Path, r.Path, cs)

\* Codec.DecodeRequest (lines 250-352)
DecodeRequest(r, cs) ==
    CASE ParseFormFails(r) ->
            [res |-> Nil, err |-> Errorf(StatusBadRequest, "invalid URL escape"), cells |-> cs]
      [] getOperation(r.Path) = "" ->
            [res |-> Nil, err |-> ErrUnknownPath(StatusNotFound), cells |-> cs]
      [] OTHER -> DecodeOp(getOperation(r.Path), r.Form, r.Path, r.Path, cs)

\* r.Url of the httpgrpc request: the path with its query string
Url(r) == <<r.Path, "?", r.Form>>

\* the context DecodeHTTPGrpcRequest returns: the tenant of the context or,
\* failing that, of the request's header; the query tags of the header
\* (lines 372-384)
GrpcContext(c, r) ==
    [orgID |-> IF c.orgID # "" THEN c.orgID ELSE r.Header[OrgIDHeaderName],
     queryTags |-> IF QueryTagsHTTPHeader \in DOMAIN r.Header
                   THEN r.Header[QueryTagsHTTPHeader] ELSE c.queryTags]

\* Codec.DecodeHTTPGrpcRequest (lines 358-509)
DecodeHTTPGrpcRequest(c, r, cs) ==
    CASE c.orgID = "" /\ OrgIDHeaderName \notin DOMAIN r.Header ->
            [res |-> Nil, ctx |-> Nil, err |-> ErrNoOrgID, cells |-> cs]
      [] ParseFormFails(r) ->
            [res |-> Nil, ctx |-> GrpcContext(c, r),
             err |-> Errorf(StatusBadRequest, "invalid URL escape"), cells |-> cs]
      [] getOperation(r.Path) = "" ->
            [res |-> Nil, ctx |-> GrpcContext(c, r),
             err |-> ErrUnknownPath(StatusBadRequest), cells |-> cs]
      [] OTHER ->
            DecodeOp(getOperation(r.Path), r.Form, Url(r), r.Path, cs)
            @@ [ctx |-> GrpcContext(c, r)]

\* ---------------------------------------------------------------- ParamsFromRequest
ErrUnsupportedRequest == Errorf(PlainError, "expected one of the *LokiRequest, ...")

\* the LokiRequest ParamsFromRequest synthesizes for a VolumeRequest (lines
\* 1388-1397): fields it does not set are zero; StartTs and EndTs are
\* time.UnixMilli of the bound's nanosecond count, kept as that count
VolumeAsLokiRequest(r) ==
    [kind |-> "LokiRequest", Query |-> r.Matchers, Limit |-> r.Limit, Step |-> r.Step,
     Interval |-> 0, StartTs |-> [unixMilli |-> ModelTimeUnixNano(r.From)],
     EndTs |-> [unixMilli |-> ModelTimeUnixNano(r.Through)], Direction |-> FORWARD,
     Path |-> "", Shards |-> <<>>]

\* ParamsFromRequest (lines 1382-1417)
ParamsFromRequest(req) ==
    CASE req.kind = "LokiRequest" -> [val |-> [wrapper |-> "paramsRangeWrapper", req |-> req], err |-> Nil]
      [] req.kind = "VolumeRequest" ->
            [val |-> [wrapper |-> "paramsRangeWrapper", req |-> VolumeAsLokiRequest(req)], err |-> Nil]
      [] req.kind = "LokiInstantRequest" -> [val |-> [wrapper |-> "paramsInstantWrapper", req |-> req], err |-> Nil]
      [] req.kind = "LokiSeriesRequest" -> [val |-> [wrapper |-> "paramsSeriesWrapper", req |-> req], err |-> Nil]
      [] req.kind = "LabelRequest" -> [val |-> [wrapper |-> "paramsLabelWrapper", req |-> req], err |-> Nil]
      [] req.kind = "IndexStatsRequest" -> [val |-> [wrapper |-> "paramsStatsWrapper", req |-> req], err |-> Nil]
      [] OTHER -> [val |-> Nil, err |-> ErrUnsupportedRequest]

\* GetStep of the wrapped request: the Step field of LokiRequest, 0 for the
\* variants whose GetStep returns 0 (lines 98-100, 164-166, 218-220)
GetStep(r) == IF r.kind = "LokiRequest" THEN r.Step ELSE 0

\* mutant of ParamsStep: the stored milliseconds are returned as they are
ParamsStep_Raw(p) == GetStep(p.req)

\* Step(): time.Duration(p.GetStep() * 1e6), in nanoseconds
ParamsStep(p) == GetStep(p.req) * NanosPerMilli

\* Interval(): time.Duration(p.GetInterval() * 1e6) for the range wrapper, 0
\* for the others
ParamsInterval(p) ==
    IF p.wrapper = "paramsRangeWrapper" THEN p.req.Interval * NanosPerMilli ELSE 0

ParamsDirection(p) ==
    IF p.wrapper \in {"paramsRangeWrapper", "paramsInstantWrapper"} THEN p.req.Direction
    ELSE FORWARD

ParamsLimit(p) ==
    IF p.wrapper \in {"paramsRangeWrapper", "paramsInstantWrapper"} THEN p.req.Limit ELSE 0

ParamsShards(p) ==
    IF p.wrapper \in {"paramsLabelWrapper", "paramsStatsWrapper"} THEN <<>> ELSE p.req.Shards

\* Start(), End(): the wrapped request's bounds (lines 1427-1433, 1457-1463,
\* 1485-1491, 1513-1519, 1541-1547)
ParamsStart(p, cs) ==
    IF p.wrapper = "paramsStatsWrapper" THEN p.req.From ELSE GetStart(p.req, cs)

ParamsEnd(p, cs) ==
    IF p.wrapper = "paramsStatsWrapper" THEN p.req.Through ELSE GetEnd(p.req, cs)

\* Query(): p.GetQuery()
ParamsQuery(p) == IF p.wrapper = "paramsStatsWrapper" THEN p.req.Matchers ELSE GetQuery(p.req)

\* the values the adapter reports besides the bounds
ParamsView(p) ==
    [wrapper |-> p.wrapper, Step |-> ParamsStep(p), Interval |-> ParamsInterval(p),
     Direction |-> ParamsDirection(p), Limit |-> ParamsLimit(p), Shards |-> ParamsShards(p)]

\* Codec.Path (lines 736-753)
CodecPath(r) ==
    CASE r.kind = "LokiRequest" -> "loki/api/v1/query_range"
      [] r.kind = "LokiSeriesRequest" -> "loki/api/v1/series"
      [] r.kind = "LabelRequest" -> r.path
      [] r.kind = "LokiInstantRequest" -> "/loki/api/v1/query"
      [] r.kind = "IndexStatsRequest" -> "/loki/api/v1/index/stats"
      [] r.kind = "VolumeRequest" -> "/loki/api/v1/index/volume_range"
      [] OTHER -> "other"

\* ---------------------------------------------------------------- shard responses and their bodies
MaxBody == 2       \* characters in a plain-text body

ProtobufType == "application/vnd.google.protobuf"
JSONType == "application/json; charset=UTF-8"

StatusCodes == {199, 200, 299, 300, 404, 500}

\* a plain-text body: characters, "%" among them
TextBodies == [text : SeqsUpTo({"e", "%"}, MaxBody)]

ResultTypeMatrix == "matrix"
ResultTypeVector == "vector"
ResultTypeScalar == "scalar"

\* the result value loghttp parses for each resultType tag (the scalar is
\* kept as a list of one)
JSONResult(resultType) ==
    CASE resultType = ResultTypeMatrix ->
            <<[Metric |-> 1, Values |-> <<[Timestamp |-> 1, Value |-> 2]>>]>>
      [] resultType = ResultTypeVector -> <<[Metric |-> 1, Timestamp |-> 1, Value |-> 2]>>
      [] resultType = ResultTypeScalar -> <<[Timestamp |-> NanosPerMilli, Value |-> 2]>>
      [] resultType = ResultTypeStream -> <<[Labels |-> 1, Entries |-> <<[Timestamp |-> 1]>>]>>
      [] OTHER -> <<>>

\* JSON documents, tagged with the shape they have
QueryBodies ==
    {[json |-> "query", Status |-> QueryStatusSuccess, ResultType |-> t,
      Result |-> JSONResult(t), Statistics |-> st] :
        t \in {ResultTypeMatrix, ResultTypeVector, ResultTypeScalar, ResultTypeStream, "sketch"},
        st \in {ZeroStats, [TotalBytesProcessed |-> 1, TotalLinesProcessed |-> 1]}}

SeriesBodies ==
    [json : {"series"}, Status : {QueryStatusSuccess}, Data : SeqsUpTo({[n \in {1} |-> 1]}, 1)]

LabelBodies == [json : {"labels"}, Status : {QueryStatusSuccess}, Data : SeqsUpTo({1}, 1)]

IndexStatsBodies ==
    [json : {"stats"}, Streams : {1}, Chunks : {1}, Bytes : {1}, Entries : {1}]

VolumeBodies == [json : {"volume"}, Volumes : {<<[Name |-> 1, Volume |-> 1]>>}, Limit : {1}]

\* a QueryResponse envelope, tagged with the variant set in it
ProtoBodies ==
    [proto : {"prom", "streams", "series", "labels", "stats", "volume", "topk",
              "quantile", "unset"}]

Bodies ==
    TextBodies \cup QueryBodies \cup SeriesBodies \cup LabelBodies \cup IndexStatsBodies
    \cup VolumeBodies \cup ProtoBodies

ShardResponses ==
    [StatusCode : StatusCodes, ContentType : {JSONType, ProtobufType}, Body : Bodies,
     Header : HeaderLists]

IsText(body) == "text" \in DOMAIN body

IsJSON(body, shape) == "json" \in DOMAIN body /\ body.json = shape

\* fmt.Sprintf(format) without operands: "%%" prints "%", "%" and a verb
\* prints "%!verb(MISSING)", a trailing "%" prints "%!(NOVERB)"
RECURSIVE SprintfChars(_)
SprintfChars(format) ==
    IF format = <<>> THEN <<>>
    ELSE IF Head(format) # "%" THEN <<Head(format)>> \o SprintfChars(Tail(format))
    ELSE IF Len(format) = 1 THEN <<"%!(NOVERB)">>
    ELSE IF format[2] = "%" THEN <<"%">> \o SprintfChars(Tail(Tail(format)))
    ELSE <<"%!", format[2], "(MISSING)">> \o SprintfChars(Tail(Tail(format)))

\* mutant of ErrorfBody: the body is printed through "%s"
ErrorfBody_Verbatim(body) == body

\* httpgrpc.Errorf(code, string(body)): the body is the format string
ErrorfBody(body) == IF IsText(body) THEN [text |-> SprintfChars(body.text)] ELSE body

\* ---------------------------------------------------------------- Codec.DecodeResponse, Codec.DecodeHTTPGrpcResponse
\* loghttp.GetVersion: the legacy API is version 0, the current one version 1
GetVersion(path) == IF path = "/api/prom/query" THEN 0 ELSE 1

ErrDecoding == Errorf(StatusInternalServerError, "error decoding response")
ErrUnsupportedResponse == Errorf(StatusInternalServerError, "unsupported response type")
ErrExpectedLokiRequest == Errorf(PlainError, "expected *LokiRequest or *LokiInstantRequest")

\* toProtoMatrix, toProtoVector, toProtoScalar (lines 1320-1372)
toProtoMatrix(m) ==
    [i \in DOMAIN m |->
        [Labels |-> m[i].Metric,
         Samples |-> [j \in DOMAIN m[i].Values |->
                         [TimestampMs |-> m[i].Values[j].Timestamp,
                          Value |-> m[i].Values[j].Value]]]]

toProtoVector(v) ==
    [i \in DOMAIN v |->
        [Labels |-> v[i].Metric,
         Samples |-> <<[TimestampMs |-> v[i].Timestamp, Value |-> v[i].Value]>>]]

toProtoScalar(v) ==
    <<[Labels |-> <<>>,
       Samples |-> <<[TimestampMs |-> v[1].Timestamp \div NanosPerMilli,
                      Value |-> v[1].Value]>>]>>

toProto(resultType, result) ==
    CASE resultType = ResultTypeMatrix -> toProtoMatrix(result)
      [] resultType = ResultTypeVector -> toProtoVector(result)
      [] resultType = ResultTypeScalar -> toProtoScalar(result)

LokiPromResponse(status, resultType, result, headers, statistics) ==
    [kind |-> "LokiPromResponse",
     Response |-> [Status |-> status, Data |-> [ResultType |-> resultType, Result |-> result],
                   Headers |-> headers],
     Statistics |-> statistics]

\* mutant of DecodeQueryResponse: a streams result takes the defaults FORWARD
\* and 0 instead of the originating request's direction and limit
DecodeQueryResponse_Defaults(buf, req, headers) ==
    CASE ~IsJSON(buf, "query") -> [res |-> Nil, err |-> ErrDecoding]
      [] buf.ResultType \in {ResultTypeMatrix, ResultTypeVector, ResultTypeScalar} ->
            [res |-> LokiPromResponse(buf.Status, buf.ResultType,
                                      toProto(buf.ResultType, buf.Result), headers,
                                      buf.Statistics),
             err |-> Nil]
      [] buf.ResultType = ResultTypeStream ->
            [res |-> LokiResponse(buf.Status, FORWARD, 0, 1, "", "", buf.Statistics,
                                  headers, buf.Result),
             err |-> Nil]
      [] OTHER -> [res |-> Nil, err |-> ErrUnsupportedResponse]

\* the default case of decodeResponseJSONFrom (lines 850-923): dispatch on the
\* body's resultType
DecodeQueryResponse(buf, req, headers) ==
    CASE ~IsJSON(buf, "query") -> [res |-> Nil, err |-> ErrDecoding]
      [] buf.ResultType \in {ResultTypeMatrix, ResultTypeVector, ResultTypeScalar} ->
            [res |-> LokiPromResponse(buf.Status, buf.ResultType,
                                      toProto(buf.ResultType, buf.Result), headers,
                                      buf.Statistics),
             err |-> Nil]
      [] buf.ResultType = ResultTypeStream ->
            LET params == ParamsFromRequest(req)
            IN CASE params.err # Nil -> [res |-> Nil, err |-> params.err]
                 [] req.kind \notin {"LokiRequest", "LokiInstantRequest"} ->
                       [res |-> Nil, err |-> ErrExpectedLokiRequest]
                 [] OTHER ->
                       [res |-> LokiResponse(buf.Status, ParamsDirection(params.val),
                                             ParamsLimit(params.val), GetVersion(req.Path),
                                             "", "", buf.Statistics, headers, buf.Result),
                        err |-> Nil]
      [] OTHER -> [res |-> Nil, err |-> ErrUnsupportedResponse]

\* decodeResponseJSONFrom (lines 798-924): dispatch on the originating request
decodeResponseJSONFrom(buf, req, headers) ==
    CASE req.kind = "LokiSeriesRequest" ->
            IF ~IsJSON(buf, "series") THEN [res |-> Nil, err |-> ErrDecoding]
            ELSE [res |-> [kind |-> "LokiSeriesResponse", Status |-> buf.Status,
                           Version |-> GetVersion(req.Path), Data |-> buf.Data,
                           Statistics |-> ZeroStats, Headers |-> headers],
                  err |-> Nil]
      [] req.kind = "LabelRequest" ->
            IF ~IsJSON(buf, "labels") THEN [res |-> Nil, err |-> ErrDecoding]
            ELSE [res |-> [kind |-> "LokiLabelNamesResponse", Status |-> buf.Status,
                           Version |-> GetVersion(req.path), Data |-> buf.Data,
                           Statistics |-> ZeroStats, Headers |-> headers],
                  err |-> Nil]
      [] req.kind = "IndexStatsRequest" ->
            IF ~IsJSON(buf, "stats") THEN [res |-> Nil, err |-> ErrDecoding]
            ELSE [res |-> [kind |-> "IndexStatsResponse",
                           Response |-> [Streams |-> buf.Streams, Chunks |-> buf.Chunks,
                                         Bytes |-> buf.Bytes, Entries |-> buf.Entries],
                           Headers |-> headers],
                  err |-> Nil]
      [] req.kind = "VolumeRequest" ->
            IF ~IsJSON(buf, "volume") THEN [res |-> Nil, err |-> ErrDecoding]
            ELSE [res |-> [kind |-> "VolumeResponse",
                           Response |-> [Volumes |-> buf.Volumes, Limit |-> buf.Limit],
                           Headers |-> headers],
                  err |-> Nil]
      [] OTHER -> DecodeQueryResponse(buf, req, headers)

\* decodeResponseProtobuf (lines 926-971): the envelope's variant with the
\* response's headers; a series request takes the view of the raw buffer
decodeResponseProtobuf(r, req) ==
    CASE req.kind = "LokiSeriesRequest" ->
            [res |-> [kind |-> "LokiSeriesResponseView", buffer |-> r.Body], err |-> Nil]
      [] "proto" \notin DOMAIN r.Body -> [res |-> Nil, err |-> ErrDecoding]
      [] req.kind = "LabelRequest" ->
            [res |-> [kind |-> "LokiLabelNamesResponse", from |-> r.Body, Headers |-> r.Header],
             err |-> Nil]
      [] req.kind = "IndexStatsRequest" ->
            [res |-> [kind |-> "IndexStatsResponse", from |-> r.Body, Headers |-> r.Header],
             err |-> Nil]
      [] r.Body.proto \in {"prom", "streams", "topk", "quantile"} ->
            [res |-> [kind |-> r.Body.proto, from |-> r.Body, Headers |-> r.Header],
             err |-> Nil]
      [] OTHER -> [res |-> Nil, err |-> ErrUnsupportedResponse]

\* Codec.DecodeResponse (lines 769-781)
DecodeResponse(r, req) ==
    CASE r.StatusCode \div 100 # 2 ->
            [res |-> Nil, err |-> Errorf(r.StatusCode, ErrorfBody(r.Body))]
      [] r.ContentType = ProtobufType -> decodeResponseProtobuf(r, req)
      [] OTHER -> decodeResponseJSONFrom(r.Body, req, r.Header)

\* Codec.DecodeHTTPGrpcResponse (lines 512-522): always the JSON decoder
DecodeHTTPGrpcResponse(r, req) ==
    IF r.StatusCode \div 100 # 2
    THEN [res |-> Nil, err |-> Errorf(r.StatusCode, ErrorfBody(r.Body))]
    ELSE decodeResponseJSONFrom(r.Body, req, r.Header)

\* ---------------------------------------------------------------- the codec's callers
\* the requests handed to EncodeRequest and ParamsFromRequest
CodecRequests ==
    CodecLokiRequests \cup CodecLokiInstantRequests \cup CodecLokiSeriesRequests
    \cup IndexStatsRequests \cup VolumeRequests \cup OtherRequests

\* the requests a shard response answers
OriginRequests ==
    {r \in CodecLokiRequests \cup CodecLokiInstantRequests :
        /\ r.Query = "{job=\"a\"}" /\ r.Shards = <<>>
        /\ r.kind = "LokiRequest" => (r.Step = 0 /\ r.Interval = 0 /\ r.StartTs = 1 /\ r.EndTs = 2)
        /\ r.kind = "LokiInstantRequest" => r.TimeTs = 1}
    \cup {r \in CodecLokiSeriesRequests \cup IndexStatsRequests \cup VolumeRequests :
            /\ (IF r.kind = "LokiSeriesRequest" THEN r.StartTs = 1 /\ r.EndTs = 2 /\ r.Shards = <<>>
                ELSE r.From = 1 /\ r.Through = 2 /\ r.Matchers = "{job=\"a\"}")
            /\ r.kind = "LokiSeriesRequest" => r.Match = <<"{job=\"a\"}">>
            /\ r.kind = "VolumeRequest" =>
                  (r.Limit = 100 /\ r.Step = 0 /\ r.TargetLabels = <<>> /\ r.AggregateBy = "series")}
    \cup OtherRequests

\* a client's query string with every parameter of every route
CompleteForm ==
    [start |-> FormatInt(1), end |-> FormatInt(2), time |-> FormatInt(2),
     query |-> FormatString("{job=\"a\"}"), direction |-> FormatString(BACKWARD),
     limit |-> FormatInt(100), step |-> FormatSeconds(MaxStep),
     match |-> [strs |-> <<"{job=\"a\"}">>], aggregateBy |-> FormatString("series")]

\* the query strings of inbound requests: complete, with a malformed start,
\* with a malformed limit, without a query, not parseable at all
InboundForms ==
    {CompleteForm, [CompleteForm EXCEPT !.start = [bad |-> "yesterday"]],
     [CompleteForm EXCEPT !.limit = [bad |-> "many"]],
     [n \in DOMAIN CompleteForm \ {"query"} |-> CompleteForm[n]], BadForm}

\* "/foo" and the tail route have no entry in the route table
InboundPaths ==
    RangePaths \cup LabelPaths
    \cup {"/loki/api/v1/query", "/loki/api/v1/series", "/loki/api/v1/index/stats",
          "/loki/api/v1/index/volume", "/loki/api/v1/index/volume_range", "/foo",
          "/loki/api/v1/tail"}

InboundRequests ==
    [Method : {"GET"}, Path : InboundPaths, Form : InboundForms,
     Header : {<< >>, OrgIDHeaderName :> "tenant-2",
               (OrgIDHeaderName :> "tenant-2") @@ (QueryTagsHTTPHeader :> "source=cli")}]

InitCodec ==
    /\ responses = <<>>
    /\ merged = Nil
    /\ err = ""
    /\ returned = Nil
    /\ \/ /\ pc = "request"
          /\ ctx \in Contexts
          /\ transport = Nil
          /\ \/ /\ reqs \in {<<r>> : r \in CodecRequests}
                /\ cells = <<>>
             \/ \E start \in Times, end \in Times, query \in Queries, path \in LabelPaths :
                   /\ reqs = <<NewLabelRequest(1, 2, query, LabelNameOf(path), path)>>
                   /\ cells = <<start, end>>
       \/ /\ pc = "inbound"
          /\ ctx \in Contexts
          /\ transport \in InboundRequests
          /\ reqs = <<>>
          /\ cells = <<>>
       \/ /\ pc = "response"
          /\ ctx = Nil
          /\ transport \in ShardResponses
          /\ \/ /\ reqs \in {<<r>> : r \in OriginRequests}
                /\ cells = <<>>
             \/ /\ reqs = <<NewLabelRequest(1, 2, "{job=\"a\"}", "", "/loki/api/v1/label")>>
                /\ cells = <<1, 2>>

\* c.EncodeRequest(ctx, r): the request goes out when there is no error
CallEncodeRequest ==
    /\ pc = "request"
    /\ returned' = EncodeRequest(ctx, reqs[1], cells)
    /\ transport' = returned'.res
    /\ pc' = "EncodeRequest"
    /\ UNCHANGED <<responses, merged, err, reqs, cells, ctx>>

\* RequestProtobufCodec.EncodeRequest(ctx, r)
CallProtobufEncodeRequest ==
    /\ pc = "request"
    /\ returned' = ProtobufEncodeRequest(ctx, reqs[1], cells)
    /\ transport' = returned'.res
    /\ pc' = "ProtobufEncodeRequest"
    /\ UNCHANGED <<responses, merged, err, reqs, cells, ctx>>

CanDecodeRequest ==
    \/ pc = "inbound"
    \/ pc \in {"EncodeRequest", "ProtobufEncodeRequest"} /\ transport # Nil

\* c.DecodeRequest(ctx, r, nil) on an inbound request or on an encoded one
CallDecodeRequest ==
    /\ CanDecodeRequest
    /\ LET out == DecodeRequest(transport, cells)
       IN /\ returned' = [res |-> out.res, err |-> out.err]
          /\ reqs' = IF out.err = Nil THEN Append(reqs, out.res) ELSE reqs
          /\ cells' = out.cells
    /\ pc' = "DecodeRequest"
    /\ UNCHANGED <<responses, merged, err, ctx, transport>>

\* c.DecodeHTTPGrpcRequest(ctx, r) on the same request wrapped for the RPC
CallDecodeHTTPGrpcRequest ==
    /\ CanDecodeRequest
    /\ LET out == DecodeHTTPGrpcRequest(ctx, transport, cells)
       IN /\ returned' = [res |-> out.res, err |-> out.err]
          /\ reqs' = IF out.err = Nil THEN Append(reqs, out.res) ELSE reqs
          /\ cells' = out.cells
          /\ ctx' = out.ctx
    /\ pc' = "DecodeHTTPGrpcRequest"
    /\ UNCHANGED <<responses, merged, err, transport>>

\* ParamsFromRequest(r)
CallParamsFromRequest ==
    /\ pc = "request"
    /\ returned' = ParamsFromRequest(reqs[1])
    /\ pc' = "ParamsFromRequest"
    /\ UNCHANGED <<responses, merged, err, reqs, cells, ctx, transport>>

\* c.DecodeResponse(ctx, r, req)
CallDecodeResponse ==
    /\ pc = "response"
    /\ returned' = DecodeResponse(transport, reqs[1])
    /\ pc' = "DecodeResponse"
    /\ UNCHANGED <<responses, merged, err, reqs, cells, ctx, transport>>

\* c.DecodeHTTPGrpcResponse(r, req)
CallDecodeHTTPGrpcResponse ==
    /\ pc = "response"
    /\ returned' = DecodeHTTPGrpcResponse(transport, reqs[1])
    /\ pc' = "DecodeHTTPGrpcResponse"
    /\ UNCHANGED <<responses, merged, err, reqs, cells, ctx, transport>>

NextCodec ==
    \/ CallEncodeRequest
    \/ CallProtobufEncodeRequest
    \/ CallDecodeRequest
    \/ CallDecodeHTTPGrpcRequest
    \/ CallParamsFromRequest
    \/ CallDecodeResponse
    \/ CallDecodeHTTPGrpcResponse

SpecCodec == InitCodec /\ [][NextCodec]_vars

\* ---------------------------------------------------------------- NewEmptyResponse
SampleQuery == "rate({job=\"a\"}[1m])"
BadQuery == "{"

\* syntax.ParseExpr and the test for a syntax.SampleExpr
ExprKind(query) ==
    CASE query = BadQuery -> "error"
      [] query = SampleQuery -> "sample"
      [] OTHER -> "log"

\* queryrangebase.NewEmptyPrometheusResponse
NewEmptyPrometheusResponse ==
    [Status |-> QueryStatusSuccess,
     Data |-> [ResultType |-> ResultTypeMatrix, Result |-> <<>>],
     Headers |-> <<>>]

ErrUnsupportedRequestType == Errorf(PlainError, "unsupported request type")

\* NewEmptyResponse (lines 1575-1624): fields the literal leaves out are zero,
\* a pointer among them nil
NewEmptyResponse(r) ==
    CASE r.kind = "LokiSeriesRequest" ->
            [res |-> [kind |-> "LokiSeriesResponse", Status |-> QueryStatusSuccess,
                      Version |-> GetVersion(r.Path), Data |-> <<>>,
                      Statistics |-> ZeroStats, Headers |-> <<>>],
             err |-> Nil]
      [] r.kind = "LabelRequest" ->
            [res |-> [kind |-> "LokiLabelNamesResponse", Status |-> QueryStatusSuccess,
                      Version |-> GetVersion(r.path), Data |-> <<>>,
                      Statistics |-> ZeroStats, Headers |-> <<>>],
             err |-> Nil]
      [] r.kind = "LokiInstantRequest" ->
            [res |-> LokiPromResponse(QueryStatusSuccess, ResultTypeVector, <<>>, <<>>,
                                      ZeroStats),
             err |-> Nil]
      [] r.kind = "LokiRequest" ->
            CASE ExprKind(r.Query) = "error" ->
                    [res |-> Nil, err |-> Errorf(StatusBadRequest, "parse error")]
              [] ExprKind(r.Query) = "sample" ->
                    [res |-> [kind |-> "LokiPromResponse",
                              Response |-> NewEmptyPrometheusResponse,
                              Statistics |-> ZeroStats],
                     err |-> Nil]
              [] OTHER ->
                    [res |-> LokiResponse(QueryStatusSuccess, r.Direction, r.Limit,
                                          GetVersion(r.Path), "", "", ZeroStats, <<>>, <<>>),
                     err |-> Nil]
      [] r.kind = "IndexStatsRequest" ->
            [res |-> [kind |-> "IndexStatsResponse", Response |-> Nil, Headers |-> <<>>],
             err |-> Nil]
      [] r.kind = "VolumeRequest" ->
            [res |-> [kind |-> "VolumeResponse", Response |-> Nil, Headers |-> <<>>],
             err |-> Nil]
      [] OTHER -> [res |-> Nil, err |-> ErrUnsupportedRequestType]

\* the requests an empty response is made for
EmptyRequests ==
    [kind : {"LokiRequest"}, Query : {"{job=\"a\"}", SampleQuery, BadQuery},
     Limit : 0..MaxLimit, Step : {0}, Interval : {0}, StartTs : {1}, EndTs : {2},
     Direction : Directions, Path : RangePaths, Shards : {<<>>}]
    \cup {r \in OriginRequests : r.kind # "LokiRequest"}
    \cup {NewLabelRequest(1, 2, "{job=\"a\"}", LabelNameOf(path), path) : path \in LabelPaths}
    \cup OtherRequests

\* the shard responses that answer a request
OthersFor(r) ==
    CASE r.kind = "LokiRequest" /\ ExprKind(r.Query) = "log" ->
            LogShardResponses(r.Direction, r.Limit)
      [] r.kind = "LokiRequest" /\ ExprKind(r.Query) = "sample" -> PromResponses
      [] r.kind = "LokiInstantRequest" -> PromResponses
      [] r.kind = "LokiSeriesRequest" -> SeriesPayloadResponses
      [] r.kind = "LabelRequest" -> LabelNamesPayloadResponses
      [] r.kind = "IndexStatsRequest" -> IndexStatsResponses
      [] r.kind = "VolumeRequest" -> VolumeResponses
      [] OTHER -> {}

\* the caller holds the shard responses of a request
InitEmpty ==
    /\ merged = Nil
    /\ err = ""
    /\ pc = "empty"
    /\ cells = <<>>
    /\ ctx = Nil
    /\ transport = Nil
    /\ returned = Nil
    /\ \E r \in EmptyRequests :
          /\ reqs = <<r>>
          /\ responses \in SeqsUpTo(OthersFor(r), MaxResp - 1)

\* NewEmptyResponse(r): the caller puts the response it gets at any place of
\* its list
CallNewEmptyResponse ==
    /\ pc = "empty"
    /\ LET out == NewEmptyResponse(reqs[1])
       IN IF out.err # Nil
          THEN /\ returned' = [res |-> Nil, err |-> out.err, at |-> 0]
               /\ pc' = "NewEmptyResponse"
               /\ UNCHANGED responses
          ELSE /\ \E k \in 1..(Len(responses) + 1) :
                     /\ returned' = [res |-> out.res, err |-> Nil, at |-> k]
                     /\ responses' = SubSeq(responses, 1, k - 1) \o <<out.res>>
                                     \o SubSeq(responses, k, Len(responses))
               /\ pc' = "build"
    /\ UNCHANGED <<merged, err, reqs, cells, ctx, transport>>

NextEmpty == CallNewEmptyResponse \/ CallMergeResponse

SpecEmpty == InitEmpty /\ [][NextEmpty]_vars

\* ---------------------------------------------------------------- properties of the log merge
Min(a, b) == IF a <= b THEN a ELSE b

IsMerged(kind) == pc = "merged" /\ responses # <<>> /\ responses[1].kind = kind

IsLogMerge == IsMerged("LokiResponse")

\* the entries every input response holds, consumed or not
TotalAvailable(resps) == SeqSum([i \in DOMAIN resps |-> Count(resps[i])])

\* the entries a response holds for one label-set, over all its streams of that key
EntriesOf(res, key) ==
    LET sel == SelectSeq(res.Data.Result, LAMBDA st : st.Labels = key)
    IN Flatten([i \in DOMAIN sel |-> sel[i].Entries])

\* how many of the entries in es carry timestamp t
Occurrences(es, t) == Cardinality({i \in DOMAIN es : es[i].Timestamp = t})

Timestamps == 1..(IF MaxTs > MaxShardTs THEN MaxTs ELSE MaxShardTs)

\* C1: the merged log response holds at most limit entries, and exactly
\* min(limit, entries available over all inputs), limit 0 included
C1_LimitEnforced ==
    IsLogMerge =>
        /\ Count(merged) <= responses[1].Limit
        /\ Count(merged) = Min(responses[1].Limit, TotalAvailable(responses))

\* C1 witness: two responses holding more than a positive limit, cut to limit
C1_Witness ==
    /\ IsLogMerge
    /\ Len(responses) = 2
    /\ responses[1].Limit > 0
    /\ Count(responses[1]) < responses[1].Limit
    /\ TotalAvailable(responses) > responses[1].Limit
    /\ Count(merged) = responses[1].Limit

\* the entries of both shards in timestamp order for the direction
RECURSIVE SortEntries(_, _)
SortEntries(es, direction) ==
    IF es = <<>> THEN <<>>
    ELSE LET i == CHOOSE x \in DOMAIN es :
                     \A y \in DOMAIN es :
                        IF direction = FORWARD
                        THEN es[x].Timestamp <= es[y].Timestamp
                        ELSE es[x].Timestamp >= es[y].Timestamp
         IN <<es[i]>> \o SortEntries(SubSeq(es, 1, i - 1) \o SubSeq(es, i + 1, Len(es)),
                                      direction)

Truncate(es, limit) == IF Len(es) > limit THEN SubSeq(es, 1, limit) ELSE es

\* two shards, each with one stream of ShardLen ordered entries for label-set 1
IsInterleavedMerge ==
    /\ IsLogMerge
    /\ Len(responses) = 2
    /\ \A i \in 1..2 :
          /\ Len(responses[i].Data.Result) = 1
          /\ Len(responses[i].Data.Result[1].Entries) = ShardLen

ShardEntries(i) == responses[i].Data.Result[1].Entries

\* C2 as stated: the merged stream is the timestamp-ordered interleaving of the
\* two shards' entries, truncated at limit
C2_InterleavingAsStated ==
    IsInterleavedMerge =>
        merged.Data.Result =
            <<[Labels |-> 1,
               Entries |-> Truncate(SortEntries(ShardEntries(1) \o ShardEntries(2),
                                                responses[1].Direction),
                                    responses[1].Limit)]>>

\* shard a holds no entry that comes after an entry of shard b
Precedes(a, b, direction) ==
    \A i \in DOMAIN a, j \in DOMAIN b :
        IF direction = FORWARD THEN a[i].Timestamp <= b[j].Timestamp
        ELSE a[i].Timestamp >= b[j].Timestamp

\* C2 amended: when the first shard holds fewer entries than limit, the merged
\* stream is the two shards' entry lists concatenated, the list whose first
\* entry comes first for the direction placed first, truncated at limit; it is
\* the ordered interleaving when the shards do not overlap
C2_ConcatenatedByStart ==
    (IsInterleavedMerge /\ Len(ShardEntries(1)) < responses[1].Limit) =>
        LET d == responses[1].Direction
            a == ShardEntries(1)
            b == ShardEntries(2)
            out(x, y) == <<[Labels |-> 1, Entries |-> Truncate(x \o y, responses[1].Limit)]>>
        IN /\ \/ ~StartsBefore(b, a, d) /\ merged.Data.Result = out(a, b)
              \/ ~StartsBefore(a, b, d) /\ merged.Data.Result = out(b, a)
           /\ (Precedes(a, b, d) \/ Precedes(b, a, d)) =>
                 merged.Data.Result = out(SortEntries(a \o b, d), <<>>)

\* C2 witness: shards at t=[1,3,5] and t=[2,4,6], FORWARD, limit 4, merged
C2_Witness ==
    /\ IsInterleavedMerge
    /\ responses[1].Direction = FORWARD
    /\ responses[1].Limit = 4
    /\ ShardEntries(1) = <<[Timestamp |-> 1], [Timestamp |-> 3], [Timestamp |-> 5]>>
    /\ ShardEntries(2) = <<[Timestamp |-> 2], [Timestamp |-> 4], [Timestamp |-> 6]>>
    /\ merged.Data.Result[1].Entries =
          <<[Timestamp |-> 1], [Timestamp |-> 3], [Timestamp |-> 5], [Timestamp |-> 2]>>

IsPairMerge ==
    /\ IsLogMerge
    /\ Len(responses) = 2
    /\ responses[1].Limit = responses[2].Limit
    /\ responses[1].Direction = responses[2].Direction

Swapped == MergeResponse(<<responses[2], responses[1]>>).res

SameEntriesPerLabelSet(x, y) ==
    \A k \in 1..MaxLabel, t \in Timestamps :
        Occurrences(EntriesOf(x, k), t) = Occurrences(EntriesOf(y, k), t)

\* C3 as stated: merging [A, B] and [B, A] gives the same entries for every
\* label-set and the same total count
C3_CommutativeAsStated ==
    IsPairMerge =>
        /\ Count(merged) = Count(Swapped)
        /\ \A k \in 1..MaxLabel :
              {e.Timestamp : e \in Range(EntriesOf(merged, k))}
                  = {e.Timestamp : e \in Range(EntriesOf(Swapped, k))}

\* C3 amended: merging [A, B] and [B, A] gives the same total count, and the same
\* entries for every label-set when A and B together hold at most limit entries
C3_CommutativeWithinLimit ==
    IsPairMerge =>
        /\ Count(merged) = Count(Swapped)
        /\ TotalAvailable(responses) <= responses[1].Limit =>
              SameEntriesPerLabelSet(merged, Swapped)

\* C3 witness: both responses hold entries for the same label-set, within limit
C3_Witness ==
    /\ IsPairMerge
    /\ TotalAvailable(responses) <= responses[1].Limit
    /\ \E k \in 1..MaxLabel :
          /\ EntriesOf(responses[1], k) # <<>>
          /\ EntriesOf(responses[2], k) # <<>>
          /\ EntriesOf(responses[1], k) # EntriesOf(responses[2], k)
          /\ Len(EntriesOf(merged, k)) = 2

\* C4: the merged streams have distinct label-set keys, ascending when FORWARD
\* and descending when BACKWARD, on the escape-hatch path and on the heap path
C4_StreamsOrderedByKey ==
    IsLogMerge =>
        LET out == merged.Data.Result
        IN \A i, j \in DOMAIN out :
              i < j => IF merged.Direction = BACKWARD
                       THEN out[i].Labels > out[j].Labels
                       ELSE out[i].Labels < out[j].Labels

\* C4 witness: a BACKWARD merge on the heap path whose inputs list the keys in
\* ascending order
C4_Witness ==
    /\ IsLogMerge
    /\ merged.Direction = BACKWARD
    /\ TotalAvailable(responses) > merged.Limit
    /\ Len(responses[1].Data.Result) = 2
    /\ responses[1].Data.Result[1].Labels < responses[1].Data.Result[2].Labels
    /\ Len(merged.Data.Result) = 2

\* ---------------------------------------------------------------- properties of every kind
MergedKinds ==
    {"LokiPromResponse", "LokiResponse", "LokiSeriesResponse", "LokiLabelNamesResponse",
     "IndexStatsResponse", "VolumeResponse"}

WithStatistics ==
    {"LokiPromResponse", "LokiResponse", "LokiSeriesResponse", "LokiLabelNamesResponse"}

StatusOf(r) ==
    CASE r.kind \in {"LokiResponse", "LokiSeriesResponse", "LokiLabelNamesResponse"} -> r.Status
      [] r.kind = "LokiPromResponse" -> r.Response.Status
      [] OTHER -> ""

PayloadOf(r) ==
    CASE r.kind = "LokiResponse" -> r.Data.Result
      [] r.kind \in {"LokiSeriesResponse", "LokiLabelNamesResponse"} -> r.Data
      [] r.kind = "LokiPromResponse" -> r.Response.Data
      [] OTHER -> r.Response

HeadersOf(r) == IF r.kind = "LokiPromResponse" THEN r.Response.Headers ELSE r.Headers

StatisticsOf(r) == IF r.kind \in WithStatistics THEN r.Statistics ELSE ZeroStats

IsSingleMerge == pc = "merged" /\ Len(responses) = 1 /\ responses[1].kind \in MergedKinds

InMergedForm(r) ==
    /\ Count(r) <= r.Limit
    /\ \A i, j \in DOMAIN r.Data.Result :
          i < j => IF r.Direction = BACKWARD
                   THEN r.Data.Result[i].Labels > r.Data.Result[j].Labels
                   ELSE r.Data.Result[i].Labels < r.Data.Result[j].Labels

RECURSIVE PickAscending(_, _)
PickAscending(all, idx) ==
    IF idx = {} THEN <<>>
    ELSE LET i == CHOOSE x \in idx : \A y \in idx : x <= y
         IN <<all[i]>> \o PickAscending(all, idx \ {i})

InputSeries == Flatten([i \in DOMAIN responses |-> responses[i].Data])

\* C6: the merged series are the first occurrences of each series hash, in the
\* order met over the responses and their Data: no hash twice, none missing
C6_SeriesFirstOccurrences ==
    IsMerged("LokiSeriesResponse") =>
        LET all == InputSeries
            first == {i \in DOMAIN all : \A j \in 1..(i - 1) : Hash(all[j]) # Hash(all[i])}
        IN /\ merged.Data = PickAscending(all, first)
           /\ \A i, j \in DOMAIN merged.Data :
                 i # j => Hash(merged.Data[i]) # Hash(merged.Data[j])
           /\ {Hash(x) : x \in Range(all)} = {Hash(x) : x \in Range(merged.Data)}

\* C6 witness: [{env=prod}] and [{env=prod},{env=dev}] merged into
\* [{env=prod},{env=dev}] (label name 1 is env, value 1 prod, value 2 dev)
C6_Witness ==
    /\ IsMerged("LokiSeriesResponse")
    /\ Len(responses) = 2
    /\ responses[1].Data = <<[n \in {1} |-> 1]>>
    /\ responses[2].Data = <<[n \in {1} |-> 1], [n \in {1} |-> 2]>>
    /\ merged.Data = <<[n \in {1} |-> 1], [n \in {1} |-> 2]>>

\* C7: the merged names hold each name of the inputs once, in the order of
\* first occurrence, and no other name
C7_NamesFirstOccurrences ==
    IsMerged("LokiLabelNamesResponse") =>
        LET all == InputSeries
            first == {i \in DOMAIN all : \A j \in 1..(i - 1) : all[j] # all[i]}
        IN /\ merged.Data = PickAscending(all, first)
           /\ \A i, j \in DOMAIN merged.Data : i # j => merged.Data[i] # merged.Data[j]
           /\ Range(merged.Data) = Range(all)

\* C7 witness: a name of the first response comes back in the second, after a
\* new one
C7_Witness ==
    /\ IsMerged("LokiLabelNamesResponse")
    /\ Len(responses) = 2
    /\ Len(responses[1].Data) = 2
    /\ responses[1].Data[1] # responses[1].Data[2]
    /\ responses[2].Data = <<responses[1].Data[2], responses[1].Data[1]>>
    /\ merged.Data = responses[1].Data

SumOf(f(_)) == SeqSum([i \in DOMAIN responses |-> f(responses[i])])

\* C8: the merged statistics are the field-wise sum of the statistics of all
\* inputs, for log responses those after the limit was reached included
C8_StatisticsSummed ==
    /\ (pc = "merged" /\ responses # <<>> /\ responses[1].kind \in WithStatistics) =>
          /\ merged.Statistics.TotalBytesProcessed
                = SumOf(LAMBDA r : r.Statistics.TotalBytesProcessed)
          /\ merged.Statistics.TotalLinesProcessed
                = SumOf(LAMBDA r : r.Statistics.TotalLinesProcessed)
    /\ IsMerged("IndexStatsResponse") =>
          /\ merged.Response.Streams = SumOf(LAMBDA r : r.Response.Streams)
          /\ merged.Response.Chunks = SumOf(LAMBDA r : r.Response.Chunks)
          /\ merged.Response.Bytes = SumOf(LAMBDA r : r.Response.Bytes)
          /\ merged.Response.Entries = SumOf(LAMBDA r : r.Response.Entries)

\* C8 witness: the first log response reaches the limit, the second one carries
\* statistics, and they are in the merged statistics
C8_Witness ==
    /\ IsLogMerge
    /\ Len(responses) = 2
    /\ Consumed(responses, responses[1].Limit) = 1
    /\ responses[1].Statistics.TotalBytesProcessed = 1
    /\ responses[2].Statistics.TotalBytesProcessed = 1
    /\ responses[2].Statistics.TotalLinesProcessed = 1
    /\ merged.Statistics.TotalBytesProcessed = 2

\* C9: an empty list gives an error and no response; a first element of no
\* known kind gives the unknown-response-type error and no response
C9_MergeErrors ==
    pc = "merged" =>
        /\ responses = <<>> => (err # "" /\ merged = Nil)
        /\ (responses # <<>>
              /\ responses[1].kind \notin (MergedKinds
                    \cup {"LokiSeriesResponseView", "MergedSeriesResponseView"})) =>
              (err = ErrUnknownType /\ merged = Nil)

\* C9 witness: MergeResponse was called with a response of an unknown type
C9_Witness ==
    /\ pc = "merged"
    /\ responses # <<>>
    /\ responses[1].kind = "OtherResponse"
    /\ err = ErrUnknownType

\* ---------------------------------------------------------------- properties of the requests
\* what a caller can read from request object i
Observable(i) ==
    [start |-> GetStart(reqs[i], cells), end |-> GetEnd(reqs[i], cells),
     query |-> GetQuery(reqs[i]), shards |-> GetShards(reqs[i]), path |-> GetPath(reqs[i]),
     limit |-> GetLimit(reqs[i]), direction |-> GetDirection(reqs[i])]

\* C10: a clone operation changes no observable field of the receiver nor of
\* any request made before, whatever the variant and the sequence of operations
C10_ClonesLeaveReceiver ==
    [][\A i \in DOMAIN reqs : i \in DOMAIN reqs' /\ Observable(i)' = Observable(i)]_vars

\* C10 witness: a label request was cloned with new bounds and the clone cloned
\* with a new query, and the receiver still reads its own bounds and query
C10_Witness ==
    /\ Len(reqs) = 3
    /\ reqs[1].kind = "LabelRequest"
    /\ GetStart(reqs[1], cells) = 1
    /\ GetEnd(reqs[1], cells) = 2
    /\ GetEnd(reqs[2], cells) = 3
    /\ reqs[3].Start = reqs[2].Start
    /\ GetQuery(reqs[3]) # GetQuery(reqs[1])

\* the step made request object Len(reqs') by r.WithStartEnd(s, e) on object i
IsWithStartEndStep(i, s, e) ==
    /\ Len(reqs) < MaxReqs
    /\ reqs' = WithStartEndOf(reqs, cells, i, s, e).reqs
    /\ cells' = WithStartEndOf(reqs, cells, i, s, e).cells

\* C11: WithStartEnd(s, e) returns a clone that reads GetStart() = s and
\* GetEnd() = e for the range, series and label variants and s for both on an
\* instant query, and an instant query always reads GetStart() = GetEnd()
C11_WithStartEndBounds ==
    [][/\ \A i \in DOMAIN reqs, s \in Times, e \in Times :
             IsWithStartEndStep(i, s, e) =>
                LET clone == reqs'[Len(reqs')]
                IN /\ GetStart(clone, cells') = s
                   /\ GetEnd(clone, cells') = (IF clone.kind = "LokiInstantRequest" THEN s ELSE e)
       /\ \A i \in DOMAIN reqs' :
             reqs'[i].kind = "LokiInstantRequest" =>
                GetStart(reqs'[i], cells') = GetEnd(reqs'[i], cells')]_vars

\* ---------------------------------------------------------------- the merge and its inputs
\* C19: MergeResponse leaves every input response as it was before the call,
\* and merging the list again returns the same result
C19_InputsNotMutated ==
    [][pc' = "merged" =>
          /\ responses' = responses
          /\ MergeResponse(responses').res = merged'
          /\ MergeResponse(responses').err = err']_vars

\* C19 witness: two series responses were merged, the first holding the same
\* series twice, and both are as they were
C19_Witness ==
    /\ pc = "merged"
    /\ Len(responses) = 2
    /\ responses[1].kind = "LokiSeriesResponse"
    /\ Len(responses[1].Data) = 2
    /\ responses[1].Data[1] = responses[1].Data[2]
    /\ Len(responses[2].Data) > 0
    /\ responses[2].Data[1] # responses[1].Data[1]
    /\ Len(merged.Data) = 2

\* the entries of responses 1..i
EntriesUpTo(i) == SeqSum([n \in 1..i |-> Count(responses[n])])

\* the first response at which the entries so far reach the limit, the last
\* response when none does
LastConsumed ==
    LET reached == {i \in DOMAIN responses : EntriesUpTo(i) >= responses[1].Limit}
    IN IF reached = {} THEN Len(responses)
       ELSE CHOOSE i \in reached : \A j \in reached : i <= j

\* the streams of responses 1..i
StreamsUpTo(i) == Flatten([n \in 1..i |-> responses[n].Data.Result])

LogMerged ==
    /\ pc = "merged"
    /\ Len(responses) > 0
    /\ responses[1].kind = "LokiResponse"

\* C20: a log merge reads the responses in list order up to and including the
\* first at which the entries so far reach the limit: the output is the merge
\* of those responses alone, and each output stream's label-set and entries
\* come from a stream of one of them
C20_StopsAtLimit ==
    LogMerged =>
        LET consumed == SubSeq(responses, 1, LastConsumed)
            streams == StreamsUpTo(LastConsumed)
        IN /\ merged.Data.Result = mergeLokiResponse(consumed).Data.Result
           /\ \A s \in Range(merged.Data.Result) : \A e \in Range(s.Entries) :
                 \E i \in DOMAIN streams :
                    streams[i].Labels = s.Labels /\ e \in Range(streams[i].Entries)

\* C20 witness: a FORWARD merge stopped at the first response, and the second
\* response holds another label-set with an entry older than the emitted one
C20_Witness ==
    /\ LogMerged
    /\ Len(responses) = 2
    /\ responses[1].Direction = FORWARD
    /\ LastConsumed = 1
    /\ \E s \in Range(merged.Data.Result) : \E e \in Range(s.Entries) :
          \E later \in Range(responses[2].Data.Result) :
             /\ later.Labels \notin {x.Labels : x \in Range(merged.Data.Result)}
             /\ \E old \in Range(later.Entries) : old.Timestamp < e.Timestamp

\* ---------------------------------------------------------------- the heap path
\* timestamp a comes before b for the direction
Before(a, b, direction) == IF direction = FORWARD THEN a < b ELSE a > b

NotAfter(a, b, direction) == a = b \/ Before(a, b, direction)

InOrder(entries, direction) ==
    \A i \in 1..(Len(entries) - 1) :
        NotAfter(entries[i].Timestamp, entries[i + 1].Timestamp, direction)

\* the streams the merge buffered
Buffered == StreamsUpTo(LastConsumed)

\* a log merge that buffered more entries than the limit
HeapPath == LogMerged /\ EntriesUpTo(LastConsumed) > responses[1].Limit

\* how many entries of the streams carry timestamp t
CountAt(streams, t) ==
    Cardinality({ij \in (DOMAIN streams) \X (1..ShardLen) :
                    /\ ij[2] <= Len(streams[ij[1]].Entries)
                    /\ streams[ij[1]].Entries[ij[2]].Timestamp = t})

\* the emitted entries are among the buffered ones, and none comes after a
\* buffered entry that was left out
GloballyNext ==
    LET direction == responses[1].Direction
        out == merged.Data.Result
    IN \A t \in 1..MaxShardTs :
          /\ CountAt(out, t) <= CountAt(Buffered, t)
          /\ CountAt(out, t) < CountAt(Buffered, t) =>
                \A s \in Range(out) : \A e \in Range(s.Entries) :
                    NotAfter(e.Timestamp, t, direction)

OutputInOrder ==
    \A s \in Range(merged.Data.Result) : InOrder(s.Entries, responses[1].Direction)

\* C21 as stated: on the heap path the emitted entries are the globally next
\* ones and every output stream is in timestamp order, whatever the inputs
C21_GloballyNextAsStated == HeapPath => (GloballyNext /\ OutputInOrder)

\* every buffered stream is in timestamp order, and of two buffered streams of
\* one label-set one ends before the other begins
NonOverlapping ==
    LET direction == responses[1].Direction
    IN /\ \A i \in DOMAIN Buffered : InOrder(Buffered[i].Entries, direction)
       /\ \A i \in DOMAIN Buffered, j \in DOMAIN Buffered :
             (/\ i < j
              /\ Buffered[i].Labels = Buffered[j].Labels
              /\ Buffered[i].Entries # <<>>
              /\ Buffered[j].Entries # <<>>) =>
                LET a == Buffered[i].Entries
                    b == Buffered[j].Entries
                IN \/ Before(a[Len(a)].Timestamp, b[1].Timestamp, direction)
                   \/ Before(b[Len(b)].Timestamp, a[1].Timestamp, direction)

\* C21 amended: on the heap path, when every buffered stream is in timestamp
\* order and buffered streams of one label-set do not overlap in time, the
\* emitted entries are the globally next ones and every output stream is in
\* timestamp order
C21_GloballyNext == (HeapPath /\ NonOverlapping) => (GloballyNext /\ OutputInOrder)

\* C21 witness: two non-overlapping responses sharing a label-set were merged
\* on the heap path, entries of two label-sets were emitted and one buffered
\* entry was left out
C21_Witness ==
    /\ HeapPath
    /\ NonOverlapping
    /\ Len(responses) = 2
    /\ LastConsumed = 2
    /\ \E a \in Range(responses[1].Data.Result), b \in Range(responses[2].Data.Result) :
          a.Labels = b.Labels /\ a.Entries # <<>> /\ b.Entries # <<>>
    /\ Len(merged.Data.Result) = 2
    /\ \E t \in 1..MaxShardTs : CountAt(merged.Data.Result, t) < CountAt(Buffered, t)

\* ---------------------------------------------------------------- the volume merge
VolumeMerged ==
    /\ pc = "merged"
    /\ Len(responses) > 0
    /\ responses[1].kind = "VolumeResponse"

\* the volume the inputs hold for a name, added up
VolumeOf(name) ==
    LET all == Flatten([i \in DOMAIN responses |-> responses[i].Response.Volumes])
    IN SeqSum([i \in DOMAIN all |-> IF all[i].Name = name THEN all[i].Volume ELSE 0])

\* the inputs in the opposite order
Reversed == [i \in DOMAIN responses |-> responses[Len(responses) + 1 - i]]

\* C23: a volume merge adds the volumes of matching label-sets across all
\* inputs and cuts the result to top-N, honouring every input's cutoff: the
\* number of volumes kept is within each input's limit and is the same when
\* the inputs are listed in the opposite order
C23_VolumeCutoff ==
    VolumeMerged =>
        LET out == merged.Response.Volumes
        IN /\ \A v \in Range(out) : v.Volume = VolumeOf(v.Name)
           /\ \A i \in DOMAIN responses : Len(out) <= responses[i].Response.Limit
           /\ Len(MergeResponse(Reversed).res.Response.Volumes) = Len(out)

\* ---------------------------------------------------------------- headers and attributes of a merge
\* C26: the merged header list is the first input's for index-stats and volume
\* merges and empty for log, series and label-name merges, so a header of a
\* later input alone never shows; a merged log response has Status "success"
\* and the Direction, Limit, Version, ErrorType and Error of the first input
C26_HeadersNotCombined ==
    (pc = "merged" /\ Len(responses) > 0) =>
        LET first == responses[1]
        IN /\ first.kind \in {"IndexStatsResponse", "VolumeResponse"} =>
                 merged.Headers = first.Headers
           /\ first.kind \in {"LokiResponse", "LokiSeriesResponse", "LokiLabelNamesResponse"} =>
                 merged.Headers = <<>>
           /\ first.kind \in {"IndexStatsResponse", "VolumeResponse", "LokiResponse",
                              "LokiSeriesResponse", "LokiLabelNamesResponse"} =>
                 \A h \in Range(merged.Headers) : h \in Range(first.Headers)
           /\ first.kind = "LokiResponse" =>
                 /\ merged.Status = "success"
                 /\ merged.Direction = first.Direction
                 /\ merged.Limit = first.Limit
                 /\ merged.Version = first.Version
                 /\ merged.ErrorType = first.ErrorType
                 /\ merged.Error = first.Error

\* C26 witness: an index-stats merge whose second input alone carries a
\* header returned no header
C26_Witness ==
    /\ pc = "merged"
    /\ Len(responses) = 2
    /\ responses[1].kind = "IndexStatsResponse"
    /\ responses[1].Headers = <<>>
    /\ responses[2].Headers # <<>>
    /\ merged.Headers = <<>>

\* C26 second case reached: a failed log response listed first merged to a
\* successful one that keeps its error text
C26_WitnessLog ==
    /\ pc = "merged"
    /\ Len(responses) = 2
    /\ responses[1].kind = "LokiResponse"
    /\ responses[1].Status = QueryStatusFail
    /\ responses[1].Error = "timeout"
    /\ responses[2].Headers # <<>>
    /\ merged.Status = QueryStatusSuccess
    /\ merged.Error = "timeout"
    /\ merged.Headers = <<>>

\* ---------------------------------------------------------------- properties of the request codec
\* a request decoder has run on a request whose query string parses and, for
\* the RPC path, whose tenant resolves
DecodedRequest ==
    /\ pc \in {"DecodeRequest", "DecodeHTTPGrpcRequest"}
    /\ ~ParseFormFails(transport)
    /\ returned.err # ErrNoOrgID

\* C12: decoding a request whose path has no route returns a NotFound (404)
\* error and no request, with DecodeRequest and with DecodeHTTPGrpcRequest
C12_UnknownPathNotFound ==
    (DecodedRequest /\ getOperation(transport.Path) = "") =>
        /\ returned.res = Nil
        /\ returned.err # Nil
        /\ returned.err.code = StatusNotFound

Encoded == pc \in {"EncodeRequest", "ProtobufEncodeRequest"}

\* C14: EncodeRequest returns an error and no transport request when the
\* context carries no tenant, for every request variant and for a request of
\* an unknown type; a request it does return carries the context's tenant in
\* the tenant header
C14_TenantMandatory ==
    Encoded =>
        /\ ctx.orgID = "" => (returned.res = Nil /\ returned.err # Nil)
        /\ returned.err = Nil =>
              /\ returned.res # Nil
              /\ OrgIDHeaderName \in DOMAIN returned.res.Header
              /\ returned.res.Header[OrgIDHeaderName] = ctx.orgID

\* C14 witness: a volume request was encoded under a context without a tenant
\* and no transport request came back
C14_Witness ==
    /\ pc = "ProtobufEncodeRequest"
    /\ ctx.orgID = ""
    /\ reqs[1].kind = "VolumeRequest"
    /\ returned.res = Nil
    /\ returned.err = ErrNoOrgID

\* the fields of a request the round trip is about, bounds in nanoseconds
Fields(r, cs) ==
    [variant |-> r.kind,
     query |-> CASE r.kind \in {"LokiRequest", "LokiInstantRequest", "LabelRequest"} -> r.Query
                 [] r.kind = "LokiSeriesRequest" -> r.Match
                 [] OTHER -> r.Matchers,
     start |-> CASE r.kind \in {"LokiRequest", "LokiSeriesRequest"} -> r.StartTs
                 [] r.kind = "LokiInstantRequest" -> r.TimeTs
                 [] r.kind = "LabelRequest" -> cs[r.Start]
                 [] OTHER -> ModelTimeUnixNano(r.From),
     end |-> CASE r.kind \in {"LokiRequest", "LokiSeriesRequest"} -> r.EndTs
               [] r.kind = "LokiInstantRequest" -> r.TimeTs
               [] r.kind = "LabelRequest" -> cs[r.End]
               [] OTHER -> ModelTimeUnixNano(r.Through),
     step |-> IF r.kind \in {"LokiRequest", "VolumeRequest"} THEN r.Step ELSE 0,
     limit |-> IF r.kind \in {"LokiRequest", "LokiInstantRequest", "VolumeRequest"}
               THEN r.Limit ELSE 0,
     direction |-> IF r.kind \in {"LokiRequest", "LokiInstantRequest"} THEN r.Direction
                   ELSE FORWARD,
     shards |-> IF r.kind \in {"LokiRequest", "LokiInstantRequest", "LokiSeriesRequest"}
                THEN r.Shards ELSE <<>>]

\* DecodeRequest has run on what EncodeRequest returned for reqs[1]: the
\* decoded request is reqs[2], and there is none when decoding failed
RoundTripped ==
    /\ pc = "DecodeRequest"
    /\ \/ returned.err = Nil /\ Len(reqs) = 2
       \/ returned.err # Nil /\ Len(reqs) = 1

EncodableRequests ==
    (CodecRequests \ OtherRequests)
    \cup {NewLabelRequest(1, 2, query, LabelNameOf(path), path) :
             query \in Queries, path \in LabelPaths}

\* the path EncodeRequest builds for r under a context that carries a tenant
EncodedPath(r) ==
    EncodeRequest([orgID |-> "tenant-1", queryTags |-> ""], r, <<1, 2>>).res.Path

\* two requests the encoder sends to the same route: of the same variant,
\* label requests with the same path of their own, volume requests both with
\* or both without a step
SameRoute(r1, r2) ==
    /\ r1.kind = r2.kind
    /\ r1.kind = "LabelRequest" => r1.path = r2.path
    /\ r1.kind = "VolumeRequest" => (r1.Step = 0) = (r2.Step = 0)

\* C17 as stated: the path EncodeRequest builds is the same for every request
\* of the variant, and it is the path Codec.Path reports
C17_FixedPathPerKind ==
    (Encoded /\ returned.err = Nil) =>
        /\ \A r2 \in EncodableRequests :
              r2.kind = reqs[1].kind => EncodedPath(r2) = returned.res.Path
        /\ CodecPath(reqs[1]) = returned.res.Path

\* C17 amended: the path is fixed per variant except that a label request
\* encodes to its own path and a volume request to the volume route when its
\* step is zero and to the volume_range route otherwise; Codec.Path reports
\* that path for label, instant and index-stats requests and for a volume
\* request with a step, and reports it without the leading slash for range
\* and series requests
C17_PathPerRoute ==
    (Encoded /\ returned.err = Nil) =>
        LET r == reqs[1]
            path == returned.res.Path
        IN /\ \A r2 \in EncodableRequests : SameRoute(r, r2) => EncodedPath(r2) = path
           /\ r.kind = "LabelRequest" => path = r.path
           /\ r.kind = "VolumeRequest" =>
                 path = (IF r.Step = 0 THEN "/loki/api/v1/index/volume"
                         ELSE "/loki/api/v1/index/volume_range")
           /\ (\/ r.kind \in {"LabelRequest", "LokiInstantRequest", "IndexStatsRequest"}
               \/ r.kind = "VolumeRequest" /\ r.Step # 0) => CodecPath(r) = path
           /\ r.kind \in {"LokiRequest", "LokiSeriesRequest"} => "/" \o CodecPath(r) = path

\* C17 witness: a volume request without a step was encoded to the volume
\* route, which is not the path Codec.Path reports for it
C17_Witness ==
    /\ Encoded
    /\ returned.err = Nil
    /\ reqs[1].kind = "VolumeRequest"
    /\ reqs[1].Step = 0
    /\ returned.res.Path = "/loki/api/v1/index/volume"
    /\ CodecPath(reqs[1]) # returned.res.Path

\* the tenant DecodeHTTPGrpcRequest resolves for context c and request r: the
\* context's or, failing that, the tenant header's; "" when neither has one
ResolvableTenant(c, r) ==
    IF c.orgID # "" THEN c.orgID
    ELSE IF OrgIDHeaderName \in DOMAIN r.Header THEN r.Header[OrgIDHeaderName]
    ELSE ""

\* the rest of C27: a successful decode returns a context holding the tenant
\* of the incoming context or else of the headers, and without a resolvable
\* tenant the call returns an error and no request
TenantResolved(c, r, out, outCtx) ==
    /\ out.err = Nil =>
          /\ outCtx # Nil
          /\ outCtx.orgID # ""
          /\ outCtx.orgID = ResolvableTenant(c, r)
    /\ ResolvableTenant(c, r) = "" => (out.res = Nil /\ out.err # Nil)

\* C27: DecodeHTTPGrpcRequest returns a non-nil context on every outcome; on
\* success the context holds the tenant of the incoming context or else of the
\* request headers; with no resolvable tenant it returns an error and no
\* request
C27_ContextOnEveryOutcome ==
    [][pc' = "DecodeHTTPGrpcRequest" =>
          /\ ctx' # Nil
          /\ TenantResolved(ctx, transport, returned', ctx')]_vars

\* ---------------------------------------------------------------- properties of the params adapter
KnownVariants ==
    {"LokiRequest", "LokiInstantRequest", "LokiSeriesRequest", "LabelRequest",
     "IndexStatsRequest", "VolumeRequest"}

\* the milliseconds a request stores as its step and as its interval
StoredStep(r) == IF r.kind \in {"LokiRequest", "VolumeRequest"} THEN r.Step ELSE 0

StoredInterval(r) == IF r.kind = "LokiRequest" THEN r.Interval ELSE 0

\* C16: ParamsFromRequest returns an error for a request of no known variant;
\* for a known variant Step() and Interval() are the stored milliseconds times
\* 1,000,000 (zero where the variant stores none), and Direction() and Limit()
\* are FORWARD and 0 for the series, label and index-stats variants
C16_ParamsAdapter ==
    pc = "ParamsFromRequest" =>
        IF reqs[1].kind \notin KnownVariants
        THEN returned.val = Nil /\ returned.err # Nil
        ELSE /\ returned.err = Nil
             /\ ParamsStep(returned.val) = StoredStep(reqs[1]) * 1000000
             /\ ParamsInterval(returned.val) = StoredInterval(reqs[1]) * 1000000
             /\ reqs[1].kind \in {"LokiSeriesRequest", "LabelRequest", "IndexStatsRequest"} =>
                   /\ ParamsDirection(returned.val) = FORWARD
                   /\ ParamsLimit(returned.val) = 0

\* C16 witness: the adapter of a volume request with the largest step reports
\* that step in nanoseconds
C16_Witness ==
    /\ pc = "ParamsFromRequest"
    /\ reqs[1].kind = "VolumeRequest"
    /\ reqs[1].Step = MaxStep
    /\ returned.err = Nil
    /\ ParamsStep(returned.val) = MaxStep * 1000000
    /\ ParamsInterval(returned.val) = 0

\* C22: the adapter ParamsFromRequest returns for a volume request reports the
\* request's own bounds, query, step and limit: Start() and End() are the
\* instants From and Through (milliseconds since the epoch), Step() is the
\* step in nanoseconds
C22_VolumeAdapter ==
    (pc = "ParamsFromRequest" /\ reqs[1].kind = "VolumeRequest") =>
        /\ returned.err = Nil
        /\ ParamsStart(returned.val, cells).unixMilli = reqs[1].From
        /\ ParamsEnd(returned.val, cells).unixMilli = reqs[1].Through
        /\ ParamsQuery(returned.val) = reqs[1].Matchers
        /\ ParamsStep(returned.val) = reqs[1].Step * 1000000
        /\ ParamsLimit(returned.val) = reqs[1].Limit

\* ---------------------------------------------------------------- properties of the response codec
DecodedResponse == pc \in {"DecodeResponse", "DecodeHTTPGrpcResponse"}

\* C13: a shard response whose status is not 2xx decodes to an error with that
\* status code and the raw body and to no response, whatever the originating
\* request, the body and the content type, with both response decoders
C13_NonSuccessStatusRelayed ==
    (DecodedResponse /\ transport.StatusCode \div 100 # 2) =>
        /\ returned.res = Nil
        /\ returned.err = Errorf(transport.StatusCode, transport.Body)

\* a shard response with a 2xx status and a JSON query document was decoded
\* by the JSON decoder for a range or an instant request
DecodedQueryJSON ==
    /\ DecodedResponse
    /\ transport.StatusCode \div 100 = 2
    /\ IsJSON(transport.Body, "query")
    /\ pc = "DecodeResponse" => transport.ContentType # ProtobufType
    /\ reqs[1].kind \in {"LokiRequest", "LokiInstantRequest"}

\* C18: for a 2xx JSON body and a range or instant request the body's
\* resultType decides the response: matrix, vector and scalar give a
\* LokiPromResponse with that result type, streams gives a LokiResponse with
\* the request's direction and limit, any other resultType gives an error with
\* code 500 and no response
C18_ResultTypeDispatch ==
    DecodedQueryJSON =>
        LET resultType == transport.Body.ResultType
        IN CASE resultType \in {"matrix", "vector", "scalar"} ->
                   /\ returned.err = Nil
                   /\ returned.res.kind = "LokiPromResponse"
                   /\ returned.res.Response.Data.ResultType = resultType
             [] resultType = "streams" ->
                   /\ returned.err = Nil
                   /\ returned.res.kind = "LokiResponse"
                   /\ returned.res.Direction = reqs[1].Direction
                   /\ returned.res.Limit = reqs[1].Limit
             [] OTHER ->
                   /\ returned.res = Nil
                   /\ returned.err # Nil
                   /\ returned.err.code = 500

\* C18 witness: a streams body was decoded for a BACKWARD instant request with
\* limit 100 into a LokiResponse that carries both
C18_Witness ==
    /\ DecodedQueryJSON
    /\ pc = "DecodeHTTPGrpcResponse"
    /\ reqs[1].kind = "LokiInstantRequest"
    /\ reqs[1].Direction = BACKWARD
    /\ reqs[1].Limit = 100
    /\ transport.Body.ResultType = "streams"
    /\ returned.res.kind = "LokiResponse"
    /\ returned.res.Direction = BACKWARD
    /\ returned.res.Limit = 100

\* C18 second case reached: a body of an unknown resultType gave the error
C18_WitnessUnsupported ==
    /\ DecodedQueryJSON
    /\ transport.Body.ResultType = "sketch"
    /\ returned.err = ErrUnsupportedResponse

\* the envelope variants that answer a request of each kind
MatchingEnvelopes(r) ==
    CASE r.kind \in {"LokiRequest", "LokiInstantRequest"} -> {"prom", "streams"}
      [] r.kind = "LokiSeriesRequest" -> {"series"}
      [] r.kind = "LabelRequest" -> {"labels"}
      [] r.kind = "IndexStatsRequest" -> {"stats"}
      [] r.kind = "VolumeRequest" -> {"volume"}
      [] OTHER -> {}

\* the response kinds that carry the result of an envelope variant
KindsOfEnvelope(variant) ==
    CASE variant = "prom" -> {"prom", "LokiPromResponse"}
      [] variant = "streams" -> {"streams", "LokiResponse"}
      [] variant = "series" -> {"LokiSeriesResponse", "LokiSeriesResponseView"}
      [] variant = "labels" -> {"LokiLabelNamesResponse"}
      [] variant = "stats" -> {"IndexStatsResponse"}
      [] variant = "volume" -> {"VolumeResponse"}
      [] OTHER -> {}

\* a 2xx binary body whose envelope holds the result the request asks for was
\* decoded by DecodeResponse
DecodedMatchingEnvelope ==
    /\ pc = "DecodeResponse"
    /\ transport.StatusCode \div 100 = 2
    /\ transport.ContentType = ProtobufType
    /\ "proto" \in DOMAIN transport.Body
    /\ transport.Body.proto \in MatchingEnvelopes(reqs[1])

\* C24: for each of the six request kinds a 2xx binary body whose envelope
\* holds the matching result decodes to a response of the matching kind, with
\* no error
C24_BinaryDecodesEveryKind ==
    DecodedMatchingEnvelope =>
        /\ returned.err = Nil
        /\ returned.res # Nil
        /\ returned.res.kind \in KindsOfEnvelope(transport.Body.proto)

\* ---------------------------------------------------------------- properties of the empty response
\* the list without the empty response
Others ==
    SubSeq(responses, 1, returned.at - 1) \o SubSeq(responses, returned.at + 1, Len(responses))

\* what a response carries besides its attributes
Payload(res) ==
    CASE res.kind = "LokiPromResponse" -> res.Response.Data.Result
      [] res.kind = "LokiResponse" -> res.Data.Result
      [] res.kind \in {"LokiSeriesResponse", "LokiLabelNamesResponse"} -> res.Data
      [] res.kind = "IndexStatsResponse" -> res.Response
      [] res.kind = "VolumeResponse" -> res.Response.Volumes

\* C25: a list that holds the response of NewEmptyResponse at any place,
\* the first included, merges without a panic and without an error, and the
\* merged payload is the one the other responses merge to
C25_EmptyResponseMerges ==
    pc \in {"merged", "panicked"} =>
        /\ pc = "merged"
        /\ err = ""
        /\ merged # Nil
        /\ Others # <<>> => Payload(merged) = Payload(MergeResponse(Others).res)

====
